---- MODULE Spec2Model ----
(***************************************************************************)
(* A model of the GML compiler of gutenblog (package gml): the concurrent  *)
(* state-function lexer of lex.go, the test consumer collect() of          *)
(* lex_test.go and the single-token-lookahead parser of parse.go.          *)
(*                                                                         *)
(* The input is a sequence of bytes, each byte a one-character string.     *)
(* Offsets are 0-based byte offsets as in Go; TLA+ sequences are 1-based,  *)
(* so input[p+1] is the byte at offset p and SubSeq(input, s+1, p) is the  *)
(* Go slice input[s:p].                                                    *)
(***************************************************************************)
EXTENDS Integers, Sequences, FiniteSets, TLC

VARIABLES
    input,      \* lexer.input
    pos,        \* lexer.pos
    start,      \* lexer.start
    width,      \* lexer.width
    word,       \* lexKeyword's local `word`, live across its blocking emit
    lpc,        \* where the lexer goroutine is: the state function it is about
                \* to call, or the send it is blocked in / resumes from
    chan,       \* lexer.items: <<it>> while a send of it is blocked, else <<>>
    closed,     \* lexer.items has been closed
    entered,    \* history: l.pos when run() last called each state function,
                \* -1 for one it has not called
    cpc,        \* collect(): "recv" while looping, "done" after the break
    items,      \* collect(): the slice of items received so far
    ppc,        \* where Parse is: the p.next() call it is at, "return" or "panic"
    peekCount,  \* parser.peekCount
    token,      \* parser.token[0]
    doc,        \* parser.doc: the metadata fields and content
    caller,     \* the parse function that called collectItems
    collected,  \* collectItems' local `items`
    fig,        \* parseFigure's local `fig`
    ret,        \* <<[doc, err]>> once Parse has returned, <<v>> once it has
                \* panicked with v, else <<>>
    printed,    \* the number of "Unimplemented:" lines printed, modulo PrintWrap
    sent,       \* history: the items received from the lexer's sends, in order
    returned,   \* history: the items p.next() has returned and p.backup() has
                \* not pushed back (reads of the closed channel left out)
    phantom,    \* history: p.next() has returned an item read from the closed
                \* channel, which the lexer never sent
    out,        \* the calls of d.HTML(opts) on the returned Document so far:
                \* their options and the strings they returned
    slugs,      \* a caller of slugify: the string it started from, then the
                \* result of each call of slugify on the string before
    runs        \* history: the results of the earlier runs of Parse and HTML
                \* on this input

lexvars == <<input, pos, start, width, word, lpc, chan, closed, entered>>
parvars == <<ppc, peekCount, token, doc, caller, collected, fig, ret, printed,
             sent, returned, phantom, out, slugs, runs>>
convars == <<cpc, items, parvars>>
vars == <<lexvars, convars>>

(***************************************************************************)
(* Bounds of the model.                                                    *)
(***************************************************************************)
MaxSegs == 4
PrintWrap == 2
MaxDirectives == 3
MaxCalls == 2
MaxSlugLen == 4
MaxSlugCalls == 2
MaxRuns == 2

(***************************************************************************)
(* Bytes and runes.                                                        *)
(***************************************************************************)
eof == "eof"
NL == "\n"
SP == " "
TAB == "\t"
\* The two bytes of U+00E9 in UTF-8, and the rune they decode to.
LeadByte == "0xC3"
ContByte == "0xA9"
EAcute == "U+00E9"
RuneError == "U+FFFD"

isSpace(r) == r = SP \/ r = TAB

isNewline(r) == r = NL

isDigit(r) == r \in {"0", "1", "2", "3", "4", "5", "6", "7", "8", "9"}

\* utf8.DecodeRuneInString(l.input[p:]) for p < len(l.input): <<rune, width>>.
DecodeRune(p) ==
    LET b == input[p + 1] IN
    IF b = LeadByte /\ p + 1 < Len(input) /\ input[p + 2] = ContByte
    THEN <<EAcute, 2>>
    ELSE IF b \in {LeadByte, ContByte} THEN <<RuneError, 1>>
    ELSE <<b, 1>>

\* The rune l.next() returns when l.pos = p.
RuneAt(p) == IF p >= Len(input) THEN eof ELSE DecodeRune(p)[1]

\* The value l.next() leaves in l.width when l.pos = p.
WidthAt(p) == IF p >= Len(input) THEN 0 ELSE DecodeRune(p)[2]


(***************************************************************************)
(* Items.                                                                  *)
(***************************************************************************)
itemError == "itemError"
itemEOF == "itemEOF"
itemText == "itemText"
itemParagraph == "itemParagraph"
itemHeadingOne == "itemHeadingOne"
itemHeadingTwo == "itemHeadingTwo"
itemHeadingThree == "itemHeadingThree"
itemUnorderedList == "itemUnorderedList"
itemOrderedList == "itemOrderedList"
itemTitle == "itemTitle"
itemSubtitle == "itemSubtitle"
itemDate == "itemDate"
itemAuthor == "itemAuthor"
itemPre == "itemPre"
itemHTML == "itemHTML"
itemFigure == "itemFigure"
itemFootnotes == "itemFootnotes"
itemBlockquote == "itemBlockquote"

item(t, v, p) == [typ |-> t, val |-> v, pos |-> p]

\* The zero item of an itemType enumeration that starts with itemEOF.
ZeroItemEOF == item(itemEOF, <<>>, 0)

\* The zero value of item: itemError is iota 0, val "" and pos 0.
ZeroItem == item(itemError, <<>>, 0)

\* The map `key`, as the set of its <<word, itemType>> entries.
key ==
    { <<(<<"%", "t", "i", "t", "l", "e">>), itemTitle>>,
      <<(<<"%", "s", "u", "b", "t", "i", "t", "l", "e">>), itemSubtitle>>,
      <<(<<"%", "d", "a", "t", "e">>), itemDate>>,
      <<(<<"%", "a", "u", "t", "h", "o", "r">>), itemAuthor>>,
      <<(<<"%", "p", "r", "e">>), itemPre>>,
      <<(<<"%", "h", "t", "m", "l">>), itemHTML>>,
      <<(<<"%", "f", "i", "g", "u", "r", "e">>), itemFigure>>,
      <<(<<"%", "f", "o", "o", "t", "n", "o", "t", "e", "s">>), itemFootnotes>>,
      <<(<<"%", "b", "l", "o", "c", "k", "q", "u", "o", "t", "e">>), itemBlockquote>> }

\* `_, ok := key[w]`
keyOk(w) == \E e \in key : e[1] = w

\* key[w] for a word of the map
keyOf(w) == (CHOOSE e \in key : e[1] = w)[2]

UpperCase ==
    <<"A", "B", "C", "D", "E", "F", "G", "H", "I", "J", "K", "L", "M",
      "N", "O", "P", "Q", "R", "S", "T", "U", "V", "W", "X", "Y", "Z">>
LowerCase ==
    <<"a", "b", "c", "d", "e", "f", "g", "h", "i", "j", "k", "l", "m",
      "n", "o", "p", "q", "r", "s", "t", "u", "v", "w", "x", "y", "z">>

\* strings.ToLower, byte by byte (the bytes of the model are ASCII letters or
\* pass through unchanged).
ToLowerByte(b) ==
    IF \E i \in 1..26 : UpperCase[i] = b
    THEN LowerCase[CHOOSE i \in 1..26 : UpperCase[i] = b]
    ELSE b

\* A lexer that looks the word up as it is spelled.
ToLowerNone(s) == s

ToLower(s) == [i \in 1..Len(s) |-> ToLowerByte(s[i])]

(***************************************************************************)
(* The scanning loops of the state functions: each returns the value of    *)
(* l.pos when its loop breaks (after the l.backup() of the breaking rune). *)
(***************************************************************************)

\* lexBlock: skip spaces and newlines (each one is l.ignore()d).
BlockSkip[p \in Nat] ==
    IF isSpace(RuneAt(p)) \/ isNewline(RuneAt(p))
    THEN BlockSkip[p + WidthAt(p)] ELSE p

\* lexKeyword: scan the keyword up to a space, a newline or eof.
KeywordEnd[p \in Nat] ==
    IF isSpace(RuneAt(p)) \/ isNewline(RuneAt(p)) \/ RuneAt(p) = eof
    THEN p ELSE KeywordEnd[p + WidthAt(p)]

\* "for { if r := l.next(); !isSpace(r) { l.backup(); break } ... }"
SkipSpace[p \in Nat] == IF isSpace(RuneAt(p)) THEN SkipSpace[p + WidthAt(p)] ELSE p

\* "for { if r := l.next(); isNewline(r) || r == eof { l.backup(); break } }"
LineEnd[p \in Nat] ==
    IF isNewline(RuneAt(p)) \/ RuneAt(p) = eof
    THEN p ELSE LineEnd[p + WidthAt(p)]

\* lexHeading: "for { if r := l.next(); r != '*' { l.backup(); break } }"
StarsEnd[p \in Nat] == IF RuneAt(p) = "*" THEN StarsEnd[p + WidthAt(p)] ELSE p

\* lexOrderedList: absorb digits
DigitsEnd[p \in Nat] == IF isDigit(RuneAt(p)) THEN DigitsEnd[p + WidthAt(p)] ELSE p


(***************************************************************************)
(* The lexer goroutine.  lex() starts l.run(), which calls the state       *)
(* functions in turn.  A send on the unbuffered channel l.items blocks     *)
(* until the consumer receives: the sender puts its item in chan and       *)
(* resumes, at the label it left in lpc, once chan is empty again.         *)
(***************************************************************************)

\* A lexer whose emit reports l.pos, not l.start, as the item's offset.
emitAtPos(t, s, p) == item(t, SubSeq(input, s + 1, p), p)

\* The item l.emit(t) sends when l.start = s and l.pos = p.
emit(t, s, p) == item(t, SubSeq(input, s + 1, p), s)

\* A lexer whose errorf leaves the item's pos field at its zero value.
errorfNoPos(msg, s) == item(itemError, msg, 0)

\* The item l.errorf(...) sends when l.start = s; msg is the formatted text.
errorf(msg, s) == item(itemError, msg, s)

\* fmt.Sprintf("unrecognized keyword: %q", w)
UnrecognizedKeyword(w) == <<"unrecognized keyword: ", "\"">> \o w \o <<"\"">>

\* l.emit(t): the slice l.input[s:p] panics when s > p; otherwise the send
\* blocks and the goroutine resumes at cont.
Emit(t, s, p, cont) ==
    IF s > p
    THEN lpc' = "panic" /\ chan' = chan
    ELSE chan' = <<emit(t, s, p)>> /\ lpc' = cont

\* A lexer whose errorf returns lexBlock instead of nil.
ErrorfGoesOn(msg, s) == chan' = <<errorf(msg, s)>> /\ lpc' = "emitItem"

\* return l.errorf(...): the send blocks; once received, the state is nil.
Errorf(msg, s) == chan' = <<errorf(msg, s)>> /\ lpc' = "errorf"

\* The lexer is not blocked in a send and is about to run `at`.
LexAt(at) == lpc = at /\ chan = <<>> /\ ~closed

lexBlock ==
    /\ LexAt("lexBlock")
    /\ LET q == BlockSkip[pos]
           r == RuneAt(q)
           s == IF q > pos THEN q ELSE start
       IN  /\ width' = WidthAt(q)
           /\ start' = s
           /\ IF r = "%" THEN
                 pos' = q + WidthAt(q) /\ lpc' = "lexKeyword" /\ chan' = chan
              ELSE IF r = "*" THEN
                 pos' = q + WidthAt(q) /\ lpc' = "lexHeading" /\ chan' = chan
              ELSE IF r = "-" THEN
                 pos' = q + WidthAt(q) /\ lpc' = "lexUnorderedList" /\ chan' = chan
              ELSE IF isDigit(r) THEN
                 pos' = q + WidthAt(q) /\ lpc' = "lexOrderedList" /\ chan' = chan
              ELSE IF r = eof THEN
                 pos' = q /\ Emit(itemEOF, s, q, "emitEOF")
              ELSE
                 pos' = q /\ lpc' = "lexParagraph" /\ chan' = chan
    /\ UNCHANGED <<input, word, closed>>
    /\ entered' = [entered EXCEPT !["lexBlock"] = pos]
    /\ UNCHANGED convars

\* A lexer whose delimiter loops test for eof before they test for a space.
delimiterEofFirst(r) == r = eof

\* "if r := l.next(); !isSpace(r) { l.backup(); break } else if r == eof {
\* return l.errorf(...) }": a rune reaches the second test only when the
\* first has found it to be a space.
delimiterEof(r) == isSpace(r) /\ r = eof

\* The delimiter loop that starts at l.pos = p and breaks at q: one of the
\* runes it reads takes the branch of the eof error.
EofInDelimiter(p, q) == \E k \in p..q : delimiterEof(RuneAt(k))

\* A lexKeyword that skips one space or tab after the keyword, not all of them.
keywordValueStartOne(q) == IF isSpace(RuneAt(q)) THEN q + WidthAt(q) ELSE q

\* "Ignore spaces between key + value": l.pos, and after l.ignore() l.start,
\* when the delimiter loop that starts at q has broken.
keywordValueStart(q) == SkipSpace[q]

\* A lexKeyword whose first loop has no branch for eof: the word that ends
\* the input is looked up like any other.
keywordEofNever(r) == FALSE

\* "else if r == eof" of lexKeyword's first loop: the rune that ends the scan
\* of the keyword is eof.
keywordEof(r) == r = eof

\* lexKeyword up to its first send: the error of line 195, 202 or 210, or
\* the l.emit(key[word]) of line 228.
lexKeyword ==
    /\ LexAt("lexKeyword")
    /\ \E q \in {KeywordEnd[pos]} :
       \E w \in {ToLower(SubSeq(input, start + 1, q))} :
       LET q2 == keywordValueStart(q)
           q3 == LineEnd[q2]
       IN  IF keywordEof(RuneAt(q)) THEN
               /\ pos' = q /\ width' = 0 /\ start' = start /\ word' = word
               /\ Errorf(<<"unexpected eof while scanning keyword">>, start)
           ELSE IF ~keyOk(w) THEN
               /\ pos' = q /\ width' = WidthAt(q) /\ start' = start /\ word' = w
               /\ Errorf(UnrecognizedKeyword(w), start)
           ELSE IF EofInDelimiter(q, q2) THEN
               /\ pos' = q2 /\ width' = 0 /\ start' = start /\ word' = w
               /\ Errorf(<<"unexpected eof while scanning keyword delimiter">>, start)
           ELSE
               /\ pos' = q3 /\ width' = WidthAt(q3) /\ start' = q2 /\ word' = w
               /\ Emit(keyOf(w), q2, q3, "emitKeyword")
    /\ UNCHANGED <<input, closed>>
    /\ entered' = [entered EXCEPT !["lexKeyword"] = pos]
    /\ UNCHANGED convars

\* A lexer that also ignores the spaces and tabs that start a body line.
textStartTrimmed(a, pa, s) == SkipSpace[pa]

\* "if isNewline(a) { l.ignore() }" of the body loop's default case: l.start
\* of the Text item, where pa is l.pos after a and s the l.start before.
textStart(a, pa, s) == IF isNewline(a) THEN pa ELSE s

\* A lexer whose body loop has no case for a line that starts with `%`.
nextIsKeywordNever(a, b) == FALSE

\* "case isNewline(a) && b == '%'" of the body loop.
nextIsKeyword(a, b) == isNewline(a) /\ b = "%"

\* A lexer whose body loop has no case for an empty line.
nextIsEmptyLineNever(a, b) == FALSE

\* "case isNewline(a) && isNewline(b)" of the body loop.
nextIsEmptyLine(a, b) == isNewline(a) /\ isNewline(b)

\* One iteration of lexKeyword's last loop (lines 244-274), with l.start = s
\* and l.pos = p.
KeywordBody(s, p) ==
    LET a == RuneAt(p)
        pa == p + WidthAt(p)
        b == RuneAt(pa)
    IN  /\ word' = <<>>
        /\ IF nextIsKeyword(a, b) THEN
               /\ pos' = pa /\ start' = pa /\ width' = WidthAt(pa)
               /\ lpc' = "lexKeyword" /\ chan' = chan
           ELSE IF nextIsEmptyLine(a, b) THEN
               /\ pos' = pa + WidthAt(pa) /\ start' = pa + WidthAt(pa)
               /\ width' = WidthAt(pa)
               /\ lpc' = "lexBlock" /\ chan' = chan
           ELSE IF a = eof THEN
               /\ pos' = pa /\ start' = s /\ width' = WidthAt(pa)
               /\ Emit(itemEOF, s, pa, "emitEOF")
           ELSE IF b = eof THEN
               /\ pos' = pa /\ start' = s /\ width' = WidthAt(pa)
               /\ Emit(itemEOF, s, pa, "emitEOF")
           ELSE
               LET s2 == textStart(a, pa, s)
                   q == LineEnd[pa]
               IN  /\ pos' = q /\ start' = s2 /\ width' = WidthAt(q)
                   /\ Emit(itemText, s2, q, "emitText")

\* lexKeyword after the send of line 228: l.start = l.pos, then the
\* footnotes special case or the first iteration of the body loop.
lexKeywordEmitted ==
    /\ LexAt("emitKeyword")
    /\ IF keyOf(word) = itemFootnotes THEN
           LET p1 == pos + WidthAt(pos)
               p2 == p1 + WidthAt(p1)
           IN  /\ word' = <<>>
               /\ IF isNewline(RuneAt(pos)) /\ RuneAt(p1) # "-" THEN
                      /\ pos' = p1 /\ start' = pos /\ width' = WidthAt(p1)
                      /\ Errorf(<<"footnotes must be given as an unordered list">>, pos)
                  ELSE
                      /\ pos' = p2 /\ start' = p2 /\ width' = WidthAt(p1)
                      /\ lpc' = "lexUnorderedList" /\ chan' = chan
       ELSE KeywordBody(pos, pos)
    /\ UNCHANGED <<input, closed, entered>>
    /\ UNCHANGED convars

\* lexKeyword after the send of line 272: l.start = l.pos, then the next
\* iteration of the body loop.
lexKeywordText ==
    /\ LexAt("emitText")
    /\ KeywordBody(pos, pos)
    /\ UNCHANGED <<input, closed, entered>>
    /\ UNCHANGED convars

\* A lexer that calls l.ignore() before it falls through to lexParagraph.
returnLexParagraphIgnoring(s, p) ==
    /\ pos' = p /\ start' = p /\ width' = WidthAt(p)
    /\ lpc' = "lexParagraph" /\ chan' = chan

\* A lexer that rewinds to the start of the block and returns lexBlock when
\* the shape check fails.
returnLexBlockRewound(s, p) ==
    /\ pos' = s /\ start' = s /\ width' = WidthAt(s)
    /\ lpc' = "lexBlock" /\ chan' = chan

\* "return lexParagraph" of lexHeading, lexUnorderedList and lexOrderedList,
\* after the l.backup() or l.peek() that leaves l.pos = p: l.start stays s.
returnLexParagraph(s, p) ==
    /\ pos' = p /\ start' = s /\ width' = WidthAt(p)
    /\ lpc' = "lexParagraph" /\ chan' = chan

\* A lexHeading whose switch does not clamp: more than three stars is no heading.
HeadingTypeNoClamp(level) ==
    CASE level = 1 -> itemHeadingOne
      [] level = 2 -> itemHeadingTwo
      [] level = 3 -> itemHeadingThree
      [] OTHER -> itemParagraph

\* The switch of lexHeading on level = len(l.input[l.start:l.pos]).
HeadingType(level) ==
    CASE level = 1 -> itemHeadingOne
      [] level = 2 -> itemHeadingTwo
      [] OTHER -> itemHeadingThree

lexHeading ==
    /\ LexAt("lexHeading")
    /\ LET q == StarsEnd[pos]
           level == q - start
           q2 == SkipSpace[q]
           q3 == LineEnd[q2]
       IN  IF ~isSpace(RuneAt(q)) THEN
               returnLexParagraph(start, q)
           ELSE IF EofInDelimiter(q, q2) THEN
               /\ pos' = q2 /\ width' = 0 /\ start' = start
               /\ Errorf(<<"unexpected eof while scanning heading delimiter">>, start)
           ELSE
               /\ pos' = q3 /\ start' = q2 /\ width' = WidthAt(q3)
               /\ Emit(HeadingType(level), q2, q3, "emitItem")
    /\ UNCHANGED <<input, word, closed>>
    /\ entered' = [entered EXCEPT !["lexHeading"] = pos]
    /\ UNCHANGED convars

\* A lexer that keeps the list marker and the blanks after it in the item.
ignoreNot(s, p) == s

\* l.ignore() when l.start = s and l.pos = p: the new l.start.
ignore(s, p) == p

lexUnorderedList ==
    /\ LexAt("lexUnorderedList")
    /\ LET q2 == SkipSpace[pos]
           q3 == LineEnd[q2]
       IN  IF ~isSpace(RuneAt(pos)) THEN
               returnLexParagraph(start, pos)
           ELSE IF EofInDelimiter(pos, q2) THEN
               /\ pos' = q2 /\ width' = 0 /\ start' = start
               /\ Errorf(<<"unexpected eof while scanning unordered list delimiter">>, start)
           ELSE
               /\ pos' = q3 /\ start' = ignore(start, q2) /\ width' = WidthAt(q3)
               /\ Emit(itemUnorderedList, ignore(start, q2), q3, "emitItem")
    /\ UNCHANGED <<input, word, closed>>
    /\ entered' = [entered EXCEPT !["lexUnorderedList"] = pos]
    /\ UNCHANGED convars

lexOrderedList ==
    /\ LexAt("lexOrderedList")
    /\ LET q == DigitsEnd[pos]
           q1 == q + WidthAt(q)
           q2 == SkipSpace[q1]
           q3 == LineEnd[q2]
       IN  IF RuneAt(q) # "." THEN
               returnLexParagraph(start, q)
           ELSE IF ~isSpace(RuneAt(q1)) THEN
               returnLexParagraph(start, q1)
           ELSE IF EofInDelimiter(q1, q2) THEN
               /\ pos' = q2 /\ width' = 0 /\ start' = start
               /\ Errorf(<<"unexpected eof while scanning ordered list delimiter">>, start)
           ELSE
               /\ pos' = q3 /\ start' = ignore(start, q2) /\ width' = WidthAt(q3)
               /\ Emit(itemOrderedList, ignore(start, q2), q3, "emitItem")
    /\ UNCHANGED <<input, word, closed>>
    /\ entered' = [entered EXCEPT !["lexOrderedList"] = pos]
    /\ UNCHANGED convars

\* lexHeading, lexUnorderedList and lexOrderedList after their send:
\* l.start = l.pos, return lexBlock.
lexItemEmitted ==
    /\ LexAt("emitItem")
    /\ start' = pos
    /\ lpc' = "lexBlock"
    /\ UNCHANGED <<input, pos, width, word, chan, closed, entered>>
    /\ UNCHANGED convars

\* A lexParagraph that does not back up before it emits at an empty line.
paragraphNoBackup(pa) == pa

\* The l.backup() of lexParagraph's first case: l.pos = pa after a, and
\* l.width is the width of b, which l.peek() has just read.
paragraphBackup(pa) == pa - WidthAt(pa)

\* A lexParagraph that also ends the paragraph before a line that starts
\* like a block: with `-`, `*`, `%` or a digit.
paragraphEndsAtBlockStart(a, b) ==
    isNewline(a) /\ (isNewline(b) \/ b \in {"-", "*", "%"} \/ isDigit(b))

\* "case isNewline(a) && isNewline(b)" of lexParagraph: the end of the paragraph.
paragraphEnds(a, b) == isNewline(a) /\ isNewline(b)

\* The loop of lexParagraph from l.pos = p up to its first l.emit: which case
\* of the switch emits, and l.pos and l.width there.
ParagraphEnd[p \in Nat] ==
    LET a == RuneAt(p)
        pa == p + WidthAt(p)
        b == RuneAt(pa)
    IN  IF paragraphEnds(a, b) THEN
            [case |-> "emitParagraph", pos |-> paragraphBackup(pa), width |-> WidthAt(pa)]
        ELSE IF a = eof THEN
            [case |-> "emitParagraphA", pos |-> pa, width |-> WidthAt(pa)]
        ELSE IF b = eof THEN
            [case |-> "emitParagraphB", pos |-> pa, width |-> WidthAt(pa)]
        ELSE ParagraphEnd[LineEnd[pa]]

lexParagraph ==
    /\ LexAt("lexParagraph")
    /\ LET e == ParagraphEnd[pos]
       IN  /\ pos' = e.pos /\ width' = e.width /\ start' = start
           /\ Emit(itemParagraph, start, e.pos, e.case)
    /\ UNCHANGED <<input, word, closed>>
    /\ entered' = [entered EXCEPT !["lexParagraph"] = pos]
    /\ UNCHANGED convars

\* lexParagraph after the send of line 402: move to the start of the next block.
lexParagraphEmitted ==
    /\ LexAt("emitParagraph")
    /\ pos' = pos + WidthAt(pos)
    /\ start' = pos + WidthAt(pos)
    /\ width' = WidthAt(pos)
    /\ lpc' = "lexBlock"
    /\ UNCHANGED <<input, word, chan, closed, entered>>
    /\ UNCHANGED convars

\* lexParagraph after the send of line 409 (a == eof): l.emit(itemEOF).
lexParagraphEofA ==
    /\ LexAt("emitParagraphA")
    /\ start' = pos
    /\ Emit(itemEOF, pos, pos, "emitEOF")
    /\ UNCHANGED <<input, pos, width, word, closed, entered>>
    /\ UNCHANGED convars

\* lexParagraph after the send of line 413 (b == eof): l.next(), l.emit(itemEOF).
lexParagraphEofB ==
    /\ LexAt("emitParagraphB")
    /\ start' = pos
    /\ pos' = pos + WidthAt(pos)
    /\ width' = WidthAt(pos)
    /\ Emit(itemEOF, pos, pos + WidthAt(pos), "emitEOF")
    /\ UNCHANGED <<input, word, closed, entered>>
    /\ UNCHANGED convars

\* After the send of an EOF item (l.start = l.pos) or of an error, the state
\* function returns nil: run() leaves its loop and closes the channel.
lexClose ==
    /\ chan = <<>> /\ ~closed
    /\ lpc \in {"emitEOF", "errorf"}
    /\ start' = IF lpc = "emitEOF" THEN pos ELSE start
    /\ closed' = TRUE
    /\ lpc' = "exit"
    /\ UNCHANGED <<input, pos, width, word, chan, entered>>
    /\ UNCHANGED convars

(***************************************************************************)
(* l.nextItem(): a receive on l.items.  It completes when a sender is      *)
(* blocked in a send (and unblocks it) or when the channel is closed, and  *)
(* then yields the zero item.                                              *)
(***************************************************************************)
nextItemReady == chan # <<>> \/ closed

nextItem == IF chan # <<>> THEN chan[1] ELSE ZeroItem

(***************************************************************************)
(* collect() of lex_test.go: receive until an EOF or Error item.           *)
(***************************************************************************)
collect ==
    /\ cpc = "recv"
    /\ nextItemReady
    /\ items' = Append(items, nextItem)
    /\ chan' = <<>>
    /\ cpc' = IF nextItem.typ \in {itemEOF, itemError} THEN "done" ELSE "recv"
    /\ UNCHANGED <<input, pos, start, width, word, lpc, closed, entered>>
    /\ UNCHANGED parvars

(***************************************************************************)
(* l.drain(): "for range l.items { }" receives and drops items until the   *)
(* channel is closed.  Its caller has received some items with nextItem(), *)
(* or none, or all of them.                                                *)
(***************************************************************************)

\* The consumer leaves collect()'s loop, or has left it, and calls l.drain().
drainCall ==
    /\ cpc \in {"recv", "done"}
    /\ cpc' = "drain"
    /\ UNCHANGED <<lexvars, items, parvars>>

\* A drain that returns once it has received an EOF or Error item.
drainEndsAtTerminal(it) == it.typ \in {itemEOF, itemError}

\* The body of drain's loop is empty: no item it receives ends the loop.
drainEnds(it) == FALSE

\* One receive of drain's loop: an item, which is dropped, or the close of
\* the channel, which ends the loop.
drain ==
    /\ cpc = "drain"
    /\ nextItemReady
    /\ IF chan # <<>>
       THEN /\ chan' = <<>>
            /\ cpc' = IF drainEnds(chan[1]) THEN "drained" ELSE "drain"
       ELSE /\ chan' = chan
            /\ cpc' = "drained"
    /\ UNCHANGED <<input, pos, start, width, word, lpc, closed, entered>>
    /\ UNCHANGED <<items, parvars>>

(***************************************************************************)
(* The parser of parse.go.  Each action is one call of p.next() and the    *)
(* code that runs from its return to the next call of p.next().            *)
(***************************************************************************)

\* The greatest element of a non-empty set of numbers.
Max(S) == CHOOSE m \in S : \A n \in S : n <= m

\* The zero time.Time, 0001-01-01, and the fields of a date.
ZeroTime == [year |-> 1, month |-> 1, day |-> 1]

Digits == <<"0", "1", "2", "3", "4", "5", "6", "7", "8", "9">>

\* The value of a decimal digit byte.
DigitVal(b) == (CHOOSE i \in 1..10 : Digits[i] = b) - 1

\* The number that the decimal digits of v[from..to] spell.
RECURSIVE Atoi(_, _, _)
Atoi(v, from, to) ==
    IF to < from THEN 0 ELSE 10 * Atoi(v, from, to - 1) + DigitVal(v[to])

IsLeap(y) == y % 4 = 0 /\ (y % 100 # 0 \/ y % 400 = 0)

DaysIn(m, y) ==
    IF m = 2 THEN (IF IsLeap(y) THEN 29 ELSE 28)
    ELSE IF m \in {4, 6, 9, 11} THEN 30 ELSE 31

\* time.Parse("2006-01-02", v) returns no error: four digits, `-`, two
\* digits of a month, `-`, two digits of a day of that month, nothing else.
ValidDate(v) ==
    /\ Len(v) = 10
    /\ v[5] = "-" /\ v[8] = "-"
    /\ \A i \in {1, 2, 3, 4, 6, 7, 9, 10} : isDigit(v[i])
    /\ Atoi(v, 6, 7) \in 1..12
    /\ Atoi(v, 9, 10) \in 1..DaysIn(Atoi(v, 6, 7), Atoi(v, 1, 4))

\* The time.Time that time.Parse("2006-01-02", v) returns for a valid v.
ParseDate(v) ==
    [year |-> Atoi(v, 1, 4), month |-> Atoi(v, 6, 7), day |-> Atoi(v, 9, 10)]

\* A Join that puts nothing between the elements.
RECURSIVE JoinNoSep(_)
JoinNoSep(ss) == IF ss = <<>> THEN <<>> ELSE ss[1] \o JoinNoSep(Tail(ss))

\* strings.Join(ss, "\n")
RECURSIVE Join(_)
Join(ss) ==
    IF ss = <<>> THEN <<>>
    ELSE IF Len(ss) = 1 THEN ss[1]
    ELSE ss[1] \o <<NL>> \o Join(Tail(ss))

\* A parser whose receive does not wait for the lexer: with no sender
\* blocked it takes the zero item at once.
nextReadyAlways == TRUE

\* p.next() can return: a token is pushed back, or the receive can complete.
nextReady == peekCount > 0 \/ nextItemReady

\* p.next(): the new peekCount, the new token[0], and whether it received
\* from the channel.  It returns token[peekCount], which is token[0] only
\* when the new peekCount is 0; any other index is out of range.
next ==
    IF peekCount > 0
    THEN [peekCount |-> peekCount - 1, token |-> token, recv |-> FALSE]
    ELSE [peekCount |-> 0, token |-> nextItem, recv |-> TRUE]

\* A parser whose backup() pushes back two tokens.
backupTwice(pc) == pc + 2

\* p.backup() when p.peekCount = pc: the new p.peekCount.
backup(pc) == pc + 1

\* The effect of p.next() on the channel and on the history variables.
Received(n) ==
    /\ chan' = IF n.recv THEN <<>> ELSE chan
    /\ sent' = IF n.recv /\ chan # <<>> THEN Append(sent, chan[1]) ELSE sent
    /\ phantom' = (phantom \/ n.token = ZeroItem)
    /\ UNCHANGED <<input, pos, start, width, word, lpc, closed, entered, cpc, items, out, slugs,
                   runs>>

\* The history of a p.next() that returned it, followed or not by p.backup().
Consumed(it, backedUp) ==
    returned' = IF it = ZeroItem \/ backedUp THEN returned ELSE Append(returned, it)

\* A runtime panic of the parser: the index expression p.token[p.peekCount].
IndexPanic ==
    /\ ppc' = "panic"
    /\ ret' = <<"index out of range">>
    /\ UNCHANGED <<doc, caller, collected, fig, printed, returned>>

\* p.errorf(...): panic with an error that names the token and its offset.
perrorf(msg, t) == [error |-> msg, token |-> t.typ, val |-> t.val, pos |-> t.pos]

\* A parser whose parseMetadata does not skip empty entries.
parseMetadataNoSkip(t) ==
    IF t.typ = itemTitle THEN
        [panic |-> <<>>, metadata |-> [doc.metadata EXCEPT !.title = t.val]]
    ELSE IF t.typ = itemSubtitle THEN
        [panic |-> <<>>, metadata |-> [doc.metadata EXCEPT !.subtitle = t.val]]
    ELSE IF t.typ = itemDate THEN
        IF ValidDate(t.val)
        THEN [panic |-> <<>>, metadata |-> [doc.metadata EXCEPT !.date = ParseDate(t.val)]]
        ELSE [panic |-> <<perrorf("invalid date format: want: YYYY-MM-DD; got: %s", t)>>,
              metadata |-> doc.metadata]
    ELSE IF t.typ = itemAuthor THEN
        [panic |-> <<>>, metadata |-> [doc.metadata EXCEPT !.author = t.val]]
    ELSE [panic |-> <<perrorf("unrecognized metadata", t)>>, metadata |-> doc.metadata]

\* p.parseMetadata(tok): the metadata after it, or the value it panics with.
parseMetadata(t) ==
    IF t.val = <<>> THEN [panic |-> <<>>, metadata |-> doc.metadata]
    ELSE IF t.typ = itemTitle THEN
        [panic |-> <<>>, metadata |-> [doc.metadata EXCEPT !.title = t.val]]
    ELSE IF t.typ = itemSubtitle THEN
        [panic |-> <<>>, metadata |-> [doc.metadata EXCEPT !.subtitle = t.val]]
    ELSE IF t.typ = itemDate THEN
        IF ValidDate(t.val)
        THEN [panic |-> <<>>, metadata |-> [doc.metadata EXCEPT !.date = ParseDate(t.val)]]
        ELSE [panic |-> <<perrorf("invalid date format: want: YYYY-MM-DD; got: %s", t)>>,
              metadata |-> doc.metadata]
    ELSE IF t.typ = itemAuthor THEN
        [panic |-> <<>>, metadata |-> [doc.metadata EXCEPT !.author = t.val]]
    ELSE [panic |-> <<perrorf("unrecognized metadata", t)>>, metadata |-> doc.metadata]

\* The level parseHeading stores for a heading item.
HeadingLevel(t) ==
    CASE t.typ = itemHeadingOne -> 1
      [] t.typ = itemHeadingTwo -> 2
      [] t.typ = itemHeadingThree -> 3

\* The item type each caller of collectItems passes.
CollectType(c) ==
    CASE c = "parseUnorderedList" -> itemUnorderedList
      [] c = "parseOrderedList" -> itemOrderedList
      [] c = "parseFootnotes" -> itemUnorderedList
      [] c \in {"parseBlockquote", "parsePre", "parseHTML"} -> itemText

\* The block each caller of collectItems appends for the collected values.
CollectedBlock(c, vs) ==
    CASE c = "parseUnorderedList" -> [kind |-> "unorderedList", items |-> vs]
      [] c = "parseOrderedList" -> [kind |-> "orderedList", items |-> vs]
      [] c = "parseFootnotes" -> [kind |-> "footnotes", items |-> vs]
      [] c = "parseBlockquote" -> [kind |-> "blockquote", text |-> Join(vs)]
      [] c = "parsePre" -> [kind |-> "pre", text |-> Join(vs)]
      [] c = "parseHTML" -> [kind |-> "html", text |-> Join(vs)]

\* p.doc.content = append(p.doc.content, b)
appendBlock(b) == doc' = [doc EXCEPT !.content = Append(@, b)]

\* Parse calls a parse function that starts with collectItems.
Collect(c) ==
    /\ ppc' = "collectItems"
    /\ caller' = c
    /\ collected' = <<>>
    /\ UNCHANGED <<doc, fig, ret, printed>>

\* The for loop of Parse: tok = p.next(), then the return or the switch.
\* A parser whose switch sends a Text item to parseParagraph as well.
paragraphCaseWithText(t) == t.typ \in {itemParagraph, itemText}

\* "case itemParagraph:" of Parse's switch.
paragraphCase(t) == t.typ = itemParagraph

Parse ==
    /\ ppc = "Parse"
    /\ nextReady
    /\ LET n == next
           tok == n.token
       IN  /\ Received(n)
           /\ token' = tok
           /\ IF n.peekCount > 0 THEN
                  peekCount' = n.peekCount /\ IndexPanic
              ELSE IF tok.typ = itemEOF THEN
                  /\ peekCount' = 0
                  /\ Consumed(tok, FALSE)
                  /\ ppc' = "return"
                  /\ ret' = <<[doc |-> doc, err |-> "nil"]>>
                  /\ UNCHANGED <<doc, caller, collected, fig, printed>>
              ELSE IF tok.typ \in {itemTitle, itemSubtitle, itemDate, itemAuthor} THEN
                  /\ peekCount' = 0
                  /\ Consumed(tok, FALSE)
                  /\ doc' = [doc EXCEPT !.metadata = parseMetadata(tok).metadata]
                  /\ ret' = parseMetadata(tok).panic
                  /\ ppc' = IF parseMetadata(tok).panic # <<>> THEN "panic" ELSE "Parse"
                  /\ UNCHANGED <<caller, collected, fig, printed>>
              ELSE IF paragraphCase(tok) THEN
                  /\ peekCount' = 0
                  /\ Consumed(tok, FALSE)
                  /\ appendBlock([kind |-> "paragraph", text |-> tok.val])
                  /\ UNCHANGED <<ppc, caller, collected, fig, ret, printed>>
              ELSE IF tok.typ \in {itemHeadingOne, itemHeadingTwo, itemHeadingThree} THEN
                  /\ peekCount' = 0
                  /\ Consumed(tok, FALSE)
                  /\ appendBlock([kind |-> "heading", level |-> HeadingLevel(tok),
                                  text |-> tok.val])
                  /\ UNCHANGED <<ppc, caller, collected, fig, ret, printed>>
              ELSE IF tok.typ = itemUnorderedList THEN
                  /\ peekCount' = backup(n.peekCount)
                  /\ Consumed(tok, TRUE)
                  /\ Collect("parseUnorderedList")
              ELSE IF tok.typ = itemOrderedList THEN
                  /\ peekCount' = backup(n.peekCount)
                  /\ Consumed(tok, TRUE)
                  /\ Collect("parseOrderedList")
              ELSE IF tok.typ = itemFootnotes THEN
                  /\ peekCount' = 0
                  /\ Consumed(tok, FALSE)
                  /\ Collect("parseFootnotes")
              ELSE IF tok.typ = itemFigure THEN
                  /\ peekCount' = 0
                  /\ Consumed(tok, FALSE)
                  /\ ppc' = "parseFigure"
                  /\ fig' = [kind |-> "figure", args |-> tok.val,
                             html |-> <<>>, caption |-> <<>>]
                  /\ UNCHANGED <<doc, caller, collected, ret, printed>>
              ELSE IF tok.typ = itemBlockquote THEN
                  /\ peekCount' = 0
                  /\ Consumed(tok, FALSE)
                  /\ Collect("parseBlockquote")
              ELSE IF tok.typ = itemPre THEN
                  /\ peekCount' = 0
                  /\ Consumed(tok, FALSE)
                  /\ Collect("parsePre")
              ELSE IF tok.typ = itemHTML THEN
                  /\ peekCount' = 0
                  /\ Consumed(tok, FALSE)
                  /\ Collect("parseHTML")
              ELSE
                  \* default: fmt.Println("Unimplemented:", tok)
                  /\ peekCount' = 0
                  /\ Consumed(tok, FALSE)
                  /\ printed' = (printed + 1) % PrintWrap
                  /\ UNCHANGED <<ppc, doc, caller, collected, fig, ret>>

\* The loop of collectItems: li = p.next(); a match is appended, anything
\* else is pushed back and the caller appends its block and returns to Parse.
collectItems ==
    /\ ppc = "collectItems"
    /\ nextReady
    /\ LET n == next
           li == n.token
       IN  /\ Received(n)
           /\ token' = li
           /\ IF n.peekCount > 0 THEN
                  peekCount' = n.peekCount /\ IndexPanic
              ELSE IF li.typ = CollectType(caller) THEN
                  /\ peekCount' = 0
                  /\ Consumed(li, FALSE)
                  /\ collected' = Append(collected, li.val)
                  /\ UNCHANGED <<ppc, doc, caller, fig, ret, printed>>
              ELSE
                  /\ peekCount' = backup(n.peekCount)
                  /\ Consumed(li, TRUE)
                  /\ appendBlock(CollectedBlock(caller, collected))
                  /\ ppc' = "Parse"
                  /\ caller' = ""
                  /\ collected' = <<>>
                  /\ UNCHANGED <<fig, ret, printed>>

\* A parser that stores t2 as the caption whatever its type.
figureCaptionAlways(f, t2) == [f EXCEPT !.caption = t2.val]

\* "if t2.typ == itemText { fig.caption = t2.val }": the figure after it.
figureCaption(f, t2) == IF t2.typ = itemText THEN [f EXCEPT !.caption = t2.val] ELSE f

\* parseFigure, its first p.next(): t1 becomes fig.html if it is a Text item.
parseFigure ==
    /\ ppc = "parseFigure"
    /\ nextReady
    /\ LET n == next
           t1 == n.token
       IN  /\ Received(n)
           /\ token' = t1
           /\ IF n.peekCount > 0 THEN
                  peekCount' = n.peekCount /\ IndexPanic
              ELSE
                  /\ peekCount' = 0
                  /\ Consumed(t1, FALSE)
                  /\ fig' = IF t1.typ = itemText THEN [fig EXCEPT !.html = t1.val] ELSE fig
                  /\ ppc' = "parseFigureCaption"
                  /\ UNCHANGED <<doc, caller, collected, ret, printed>>

\* parseFigure, its second p.next(): t2 becomes fig.caption if it is a Text
\* item and is pushed back otherwise; the figure is appended.
parseFigureCaption ==
    /\ ppc = "parseFigureCaption"
    /\ nextReady
    /\ LET n == next
           t2 == n.token
       IN  /\ Received(n)
           /\ token' = t2
           /\ IF n.peekCount > 0 THEN
                  peekCount' = n.peekCount /\ IndexPanic
              ELSE
                  /\ peekCount' = IF t2.typ = itemText THEN 0 ELSE backup(n.peekCount)
                  /\ Consumed(t2, t2.typ # itemText)
                  /\ appendBlock(figureCaption(fig, t2))
                  /\ ppc' = "Parse"
                  /\ fig' = <<>>
                  /\ UNCHANGED <<caller, collected, ret, printed>>

(***************************************************************************)
(* The emitter of parse.go.  A string of HTML is a sequence whose elements *)
(* are the bytes of the values and the pieces of markup the code writes;   *)
(* the string is their concatenation.                                      *)
(***************************************************************************)

\* The options a caller may pass: nil, &HTMLOptions{}, &HTMLOptions{Minified: true}.
Options == {"nil", "unminified", "minified"}

\* opts.Minified, after "if opts == nil { opts = &HTMLOptions{} }".
Minified(opts) == opts = "minified"

\* opts.writeStringUnminified(w, s): what it writes.
writeStringUnminified(opts, s) == IF Minified(opts) THEN <<>> ELSE <<s>>

\* The decimal digits of n >= 0, as %d and strconv print them.
RECURSIVE Itoa(_)
Itoa(n) == IF n < 10 THEN <<Digits[n + 1]>> ELSE Itoa(n \div 10) \o <<Digits[(n % 10) + 1]>>

\* The decimal digits of n, padded with zeros to at least w digits.
RECURSIVE Pad(_, _)
Pad(n, w) == IF Len(Itoa(n)) >= w THEN Itoa(n) ELSE <<"0">> \o Pad(n, w - 1)

Months ==
    <<"January", "February", "March", "April", "May", "June", "July",
      "August", "September", "October", "November", "December">>

\* m.date.Format("2006-01-02")
FormatISO(d) == Pad(d.year, 4) \o <<"-">> \o Pad(d.month, 2) \o <<"-">> \o Pad(d.day, 2)

\* m.date.Format("January 2, 2006")
FormatLong(d) == <<Months[d.month], " ">> \o Itoa(d.day) \o <<",", " ">> \o Pad(d.year, 4)

\* The bytes that the regexp class \s matches: [\t\n\f\r ].
isReSpace(c) == c \in {TAB, NL, "\f", "\r", SP}

\* The vertical tab.
VT == "0x0B"

\* The bytes that strings.TrimSpace trims (the ASCII ones).
isTrimSpace(c) == c \in {TAB, NL, VT, "\f", "\r", SP}

\* strings.TrimSpace(s)
RECURSIVE TrimLeft(_)
TrimLeft(s) == IF s # <<>> /\ isTrimSpace(s[1]) THEN TrimLeft(Tail(s)) ELSE s

RECURSIVE TrimRight(_)
TrimRight(s) ==
    IF s # <<>> /\ isTrimSpace(s[Len(s)]) THEN TrimRight(SubSeq(s, 1, Len(s) - 1)) ELSE s

TrimSpace(s) == TrimRight(TrimLeft(s))

\* s has the bytes of w at index i (1-based).
HasAt(s, i, w) == i + Len(w) - 1 <= Len(s) /\ SubSeq(s, i, i + Len(w) - 1) = w

\* The index after the longest run of bytes from index i on that are not \s.
RECURSIVE NonSpaceEnd(_, _)
NonSpaceEnd(s, i) == IF i <= Len(s) /\ ~isReSpace(s[i]) THEN NonSpaceEnd(s, i + 1) ELSE i

\* The index after the longest run of digits from index i on.
RECURSIVE DigitEnd(_, _)
DigitEnd(s, i) == IF i <= Len(s) /\ isDigit(s[i]) THEN DigitEnd(s, i + 1) ELSE i

HTTPS == <<"h", "t", "t", "p", "s", ":", "/", "/">>

\* `https://[^\s]+` matches at index i of s.
URLAt(s, i) == HasAt(s, i, HTTPS) /\ NonSpaceEnd(s, i + 8) > i + 8

\* `<a href="$2">$2</a>` for the URL u.
URLAnchor(u) == <<"<a href=\"">> \o u \o <<"\">">> \o u \o <<"</a>">>

\* ReplaceAllString of `(\s?)(https://[^\s]+)` by `$1<a href="$2">$2</a>`,
\* from index i on: leftmost matches, each as long as it can be.
RECURSIVE ReplaceURLs(_, _)
ReplaceURLs(s, i) ==
    IF i > Len(s) THEN <<>>
    ELSE IF isReSpace(s[i]) /\ URLAt(s, i + 1) THEN
        <<s[i]>> \o URLAnchor(SubSeq(s, i + 1, NonSpaceEnd(s, i + 1) - 1))
                \o ReplaceURLs(s, NonSpaceEnd(s, i + 1))
    ELSE IF URLAt(s, i) THEN
        URLAnchor(SubSeq(s, i, NonSpaceEnd(s, i) - 1)) \o ReplaceURLs(s, NonSpaceEnd(s, i))
    ELSE <<s[i]>> \o ReplaceURLs(s, i + 1)

\* `\[fn:(\d+)\]` matches at index i of s.
FnRefAt(s, i) ==
    /\ HasAt(s, i, <<"[", "f", "n", ":">>)
    /\ DigitEnd(s, i + 4) > i + 4
    /\ HasAt(s, DigitEnd(s, i + 4), <<"]">>)

\* `<a id="fnr.$1" href="#fn.$1"><sup>[$1]</sup></a>` for the digits n.
FnRefAnchor(n) ==
    <<"<a id=\"fnr.">> \o n \o <<"\" href=\"#fn.">> \o n \o <<"\"><sup>[">> \o n
        \o <<"]</sup></a>">>

\* ReplaceAllString of `\[fn:(\d+)\]`, from index i on.
RECURSIVE ReplaceFnRefs(_, _)
ReplaceFnRefs(s, i) ==
    IF i > Len(s) THEN <<>>
    ELSE IF FnRefAt(s, i) THEN
        FnRefAnchor(SubSeq(s, i + 4, DigitEnd(s, i + 4) - 1))
            \o ReplaceFnRefs(s, DigitEnd(s, i + 4) + 1)
    ELSE <<s[i]>> \o ReplaceFnRefs(s, i + 1)

textToHTML(s) == TrimSpace(ReplaceFnRefs(ReplaceURLs(s, 1), 1))

\* ReplaceAllString of `[\t\n\f\r ]` by "-".
SpacesToDashes(s) == [i \in 1..Len(s) |-> IF isReSpace(s[i]) THEN "-" ELSE s[i]]

\* ReplaceAllString of `-+` by "-".
RECURSIVE CollapseDashes(_)
CollapseDashes(s) ==
    IF s = <<>> THEN <<>>
    ELSE IF s[1] = "-" /\ Len(s) > 1 /\ s[2] = "-" THEN CollapseDashes(Tail(s))
    ELSE <<s[1]>> \o CollapseDashes(Tail(s))

\* The index of the first `>` of s at index i or later; Len(s) + 1 if none.
RECURSIVE NextClose(_, _)
NextClose(s, i) == IF i <= Len(s) /\ s[i] # ">" THEN NextClose(s, i + 1) ELSE i

\* `<[^>]+>` matches at index i of s.
TagAt(s, i) == s[i] = "<" /\ NextClose(s, i + 1) <= Len(s) /\ NextClose(s, i + 1) > i + 1

\* ReplaceAllString of `<[^>]+>` by "", from index i on.
RECURSIVE StripTags(_, _)
StripTags(s, i) ==
    IF i > Len(s) THEN <<>>
    ELSE IF TagAt(s, i) THEN StripTags(s, NextClose(s, i + 1) + 1)
    ELSE <<s[i]>> \o StripTags(s, i + 1)

\* The bytes of the class [0-9A-Za-z_-].
isWordByte(c) ==
    \/ isDigit(c) \/ c \in {"_", "-"}
    \/ \E i \in 1..26 : c = UpperCase[i] \/ c = LowerCase[i]

\* ReplaceAllString of `[^0-9A-Za-z_-]` by "".
StripNonWord(s) == SelectSeq(s, isWordByte)

\* slugify(slug)
slugify(slug) ==
    ToLower(StripNonWord(StripTags(CollapseDashes(SpacesToDashes(TrimSpace(slug))), 1)))

\* An emitter that writes the date even when it is the zero time.
dateIsSetAlways(m) == TRUE

\* "!m.date.IsZero()"
dateIsSet(m) == m.date # ZeroTime

\* m.WriteHTML(w, opts): what it writes.
metadataHTML(m, opts) ==
    <<"<header>">> \o writeStringUnminified(opts, "\n")
    \o (IF m.title # <<>>
        THEN writeStringUnminified(opts, "\t") \o <<"<h1 class=\"title\">">> \o m.title
                 \o <<"</h1>">> \o writeStringUnminified(opts, "\n")
        ELSE <<>>)
    \o (IF m.subtitle # <<>>
        THEN writeStringUnminified(opts, "\t") \o <<"<p class=\"subtitle\">">> \o m.subtitle
                 \o <<"</p>">> \o writeStringUnminified(opts, "\n")
        ELSE <<>>)
    \o (IF dateIsSet(m)
        THEN writeStringUnminified(opts, "\t") \o <<"<p class=\"pubdate\">">>
                 \o <<"<time datetime=\"">> \o FormatISO(m.date) \o <<"\">">>
                 \o FormatLong(m.date) \o <<"</time>", "</p>">>
                 \o writeStringUnminified(opts, "\n")
        ELSE <<>>)
    \o (IF m.author # <<>>
        THEN writeStringUnminified(opts, "\t") \o <<"<p class=\"author\">">> \o m.author
                 \o <<"</p>">> \o writeStringUnminified(opts, "\n")
        ELSE <<>>)
    \o <<"</header>">>

\* A heading whose tag is h(level), not h(level+1).
headingTagSame(level) == level

\* "level := h.level + 1" of heading.WriteHTML.
headingTag(level) == level + 1

\* h.WriteHTML(w, opts) for a heading.
headingHTML(h, opts) ==
    <<"<h">> \o Itoa(headingTag(h.level)) \o <<" id=\"">> \o slugify(h.text)
        \o <<"\" class=\"heading\">">> \o textToHTML(h.text)
        \o <<" <a class=\"heading-ref\" href=\"#">> \o slugify(h.text) \o <<"\">#</a>">>
        \o <<"</h">> \o Itoa(headingTag(h.level)) \o <<">">>

\* The loop over l.items of the list emitters, from index i on.
RECURSIVE listItemsHTML(_, _, _)
listItemsHTML(its, i, opts) ==
    IF i > Len(its) THEN <<>>
    ELSE writeStringUnminified(opts, "\t") \o <<"<li>">> \o textToHTML(its[i])
             \o <<"</li>">> \o writeStringUnminified(opts, "\n")
             \o listItemsHTML(its, i + 1, opts)

\* l.WriteHTML(w, opts) of unorderedList (tags <ul>, </ul>) and of
\* orderedList (<ol>, </ol>).
listHTML(open, close, l, opts) ==
    <<open>> \o writeStringUnminified(opts, "\n")
        \o listItemsHTML(l.items, 1, opts) \o <<close>>

\* p.WriteHTML(w, opts) for a paragraph.
paragraphHTML(b, opts) == <<"<p>">> \o textToHTML(b.text) \o <<"</p>">>

HREF == <<"h", "r", "e", "f", "=", "\"">>

\* The index of the last `"` of s; 0 if none.
LastQuote(s) ==
    IF \E j \in 1..Len(s) : s[j] = "\"" THEN Max({ j \in 1..Len(s) : s[j] = "\"" }) ELSE 0

\* The indices of s where `href="(.+)"` matches.
HrefStarts(s) == { i \in 1..Len(s) : HasAt(s, i, HREF) /\ LastQuote(s) > i + 6 }

\* reHref.FindStringSubmatch(f.args): <<href[1]>>, or <<>> for nil.
FindHref(s) ==
    IF HrefStarts(s) = {} THEN <<>>
    ELSE <<SubSeq(s, (CHOOSE i \in HrefStarts(s) : \A j \in HrefStarts(s) : i <= j) + 6,
                  LastQuote(s) - 1)>>

\* f.WriteHTML(w, opts) for a figure.
figureHTML(f, opts) ==
    <<"<figure>">> \o writeStringUnminified(opts, "\n")
    \o (IF FindHref(f.args) # <<>>
        THEN writeStringUnminified(opts, "\t") \o <<"<a href=\"">> \o FindHref(f.args)[1]
                 \o <<"\">">> \o writeStringUnminified(opts, "\n")
                 \o writeStringUnminified(opts, "\t")
        ELSE <<>>)
    \o writeStringUnminified(opts, "\t") \o f.html \o writeStringUnminified(opts, "\n")
    \o (IF FindHref(f.args) # <<>>
        THEN writeStringUnminified(opts, "\t") \o <<"</a>">>
                 \o writeStringUnminified(opts, "\n")
        ELSE <<>>)
    \o (IF f.caption # <<>>
        THEN writeStringUnminified(opts, "\t") \o <<"<figcaption>">> \o f.caption
                 \o <<"</figcaption>">> \o writeStringUnminified(opts, "\n")
        ELSE <<>>)
    \o <<"</figure>">>

\* An emitter that numbers the footnotes from 0.
footnoteIDFromZero(k) == k - 1

\* "id := i + 1" of footnotes.WriteHTML, for the k-th item (i = k - 1).
footnoteID(k) == (k - 1) + 1

\* The glyph U+2B90 of the back-link.
ReturnGlyph == "U+2B90"

\* The loop over f.items of footnotes.WriteHTML, from the k-th item on.
RECURSIVE footnoteItemsHTML(_, _, _)
footnoteItemsHTML(its, k, opts) ==
    IF k > Len(its) THEN <<>>
    ELSE writeStringUnminified(opts, "\t\t")
             \o <<"<li id=\"fn.">> \o Itoa(footnoteID(k)) \o <<"\">">>
             \o textToHTML(its[k])
             \o <<" <a href=\"#fnr.">> \o Itoa(footnoteID(k)) \o <<"\">", ReturnGlyph, "</a></li>">>
             \o writeStringUnminified(opts, "\n")
             \o footnoteItemsHTML(its, k + 1, opts)

\* f.WriteHTML(w, opts) for footnotes.
footnotesHTML(f, opts) ==
    <<"<footer>">> \o writeStringUnminified(opts, "\n")
        \o writeStringUnminified(opts, "\t") \o <<"<ol>">> \o writeStringUnminified(opts, "\n")
        \o footnoteItemsHTML(f.items, 1, opts)
        \o writeStringUnminified(opts, "\t") \o <<"</ol>">> \o writeStringUnminified(opts, "\n")
        \o <<"</footer>">>

\* block.WriteHTML(w, opts), by the block's dynamic type.
blockHTML(b, opts) ==
    CASE b.kind = "heading" -> headingHTML(b, opts)
      [] b.kind = "unorderedList" -> listHTML("<ul>", "</ul>", b, opts)
      [] b.kind = "orderedList" -> listHTML("<ol>", "</ol>", b, opts)
      [] b.kind = "paragraph" -> paragraphHTML(b, opts)
      [] b.kind = "figure" -> figureHTML(b, opts)
      [] b.kind = "pre" -> <<"<pre>">> \o b.text \o <<"</pre>">>
      [] b.kind = "html" -> b.text
      [] b.kind = "blockquote" -> <<"<blockquote>">> \o textToHTML(b.text) \o <<"</blockquote>">>
      [] b.kind = "footnotes" -> footnotesHTML(b, opts)

\* The loop over d.content of document.HTML, from the i-th block on.
RECURSIVE contentHTML(_, _, _)
contentHTML(content, i, opts) ==
    IF i > Len(content) THEN <<>>
    ELSE blockHTML(content[i], opts) \o writeStringUnminified(opts, "\n")
             \o contentHTML(content, i + 1, opts)

\* d.HTML(opts): the string it returns.
documentHTML(d, opts) ==
    <<"<article>">> \o writeStringUnminified(opts, "\n")
        \o metadataHTML(d.metadata, opts) \o writeStringUnminified(opts, "\n")
        \o contentHTML(d.content, 1, opts)
        \o <<"</article>">>

\* A call of d.HTML(opts) on the Document that Parse returned.
HTML ==
    /\ ppc = "return"
    /\ Len(out) < MaxCalls
    /\ \E opts \in Options :
           out' = Append(out, [opts |-> opts, html |-> documentHTML(ret[1].doc, opts)])
    /\ UNCHANGED <<ppc, peekCount, token, doc, caller, collected, fig, ret, printed,
                   sent, returned, phantom, slugs, runs>>
    /\ UNCHANGED <<lexvars, cpc, items>>

\* A call of slugify on the result of the call before (on the caller's
\* string, the first time).
slugifyCall ==
    /\ slugs # <<>>
    /\ Len(slugs) <= MaxSlugCalls
    /\ slugs' = Append(slugs, slugify(slugs[Len(slugs)]))
    /\ UNCHANGED <<ppc, peekCount, token, doc, caller, collected, fig, ret, printed,
                   sent, returned, phantom, out, runs>>
    /\ UNCHANGED <<lexvars, cpc, items>>

\* Parse's `p := &parser{lex: lex(s)}`, and the history variables empty.
newParser ==
    /\ ppc = "Parse"
    /\ peekCount = 0
    /\ token = ZeroItem
    /\ doc = [metadata |-> [title |-> <<>>, subtitle |-> <<>>,
                            date |-> ZeroTime, author |-> <<>>],
              content |-> <<>>]
    /\ caller = ""
    /\ collected = <<>>
    /\ fig = <<>>
    /\ ret = <<>>
    /\ printed = 0
    /\ sent = <<>>
    /\ returned = <<>>
    /\ phantom = FALSE
    /\ out = <<>>

(***************************************************************************)
(* Inputs: every concatenation of at most MaxSegs segments.                *)
(***************************************************************************)
RECURSIVE Concats(_, _)
Concats(Segs, n) ==
    IF n = 0 THEN { <<>> }
    ELSE LET shorter == Concats(Segs, n - 1)
         IN  shorter \cup { s \o seg : s \in shorter, seg \in Segs }

\* Block-level shapes byte by byte: stars, dashes, digits, dots, blanks.
ShapeSegments ==
    { <<"*">>, <<"*", "*">>, <<"-">>, <<"1">>, <<".">>,
      <<SP>>, <<TAB>>, <<NL>>, <<"a">> }

\* Keyword lines and their bodies.
KeywordSegments ==
    { <<"%", "p", "r", "e">>,
      <<"%", "F", "o", "o", "t", "n", "o", "t", "e", "s">>,
      <<"%">>, <<"-">>, <<SP>>, <<NL>>, <<"a">> }

\* Whole lines, for documents of several blocks; one holds a two-byte rune.
LineSegments ==
    { <<"-", SP, "a">>, <<"-", SP, "a", NL>>, <<"1", ".", SP, "b">>, <<"*", SP, "c">>,
      <<"%", "p", "r", "e">>, <<LeadByte, ContByte, "d">>, <<NL>> }

\* The nine keywords, some in mixed case, and what may follow one.
KeywordSpellings ==
    { <<"t", "i", "t", "l", "e">>, <<"S", "u", "b", "t", "i", "t", "l", "e">>,
      <<"d", "a", "t", "e">>, <<"A", "U", "T", "H", "O", "R">>,
      <<"p", "r", "e">>, <<"h", "T", "m", "L">>,
      <<"f", "i", "g", "u", "r", "e">>,
      <<"f", "o", "o", "t", "n", "o", "t", "e", "s">>,
      <<"B", "l", "o", "c", "k", "q", "u", "o", "t", "e">> }

KeywordTails ==
    { <<NL>>, <<SP, "a", NL>>, <<"x", NL>>, <<NL, "%", "z", NL>>,
      <<NL, "a", NL, "%", "p", "r", "e", NL>>,
      <<NL, "a", NL, NL, "-", SP, "b", NL>>,
      <<NL, SP, "a", SP, NL, TAB, NL, "b">> }

KeywordLines == { <<"%">> \o k \o t : k \in KeywordSpellings, t \in KeywordTails }

\* Paragraphs of several lines, empty lines, and lines of other shapes.
ParagraphSegments ==
    { <<"a", NL, "b">>, <<NL, NL>>, <<NL>>, <<SP>>, <<"-", SP, "c">>, <<"%", "d">> }

LexInputs ==
    Concats(ShapeSegments, MaxSegs) \cup Concats(KeywordSegments, MaxSegs)
        \cup Concats(LineSegments, MaxSegs) \cup KeywordLines
        \cup Concats(ParagraphSegments, MaxSegs)

\* The state functions of the lexer.
StateFns ==
    { "lexBlock", "lexKeyword", "lexHeading", "lexUnorderedList",
      "lexOrderedList", "lexParagraph" }

\* lex(input): a fresh lexer, its goroutine about to call lexBlock.
lex(s) ==
    /\ input = s
    /\ pos = 0 /\ start = 0 /\ width = 0
    /\ word = <<>>
    /\ lpc = "lexBlock"
    /\ chan = <<>>
    /\ closed = FALSE
    /\ entered = [f \in StateFns |-> -1]

\* A run of collect() on an input: no parser runs.
Init ==
    /\ \E s \in LexInputs : lex(s)
    /\ cpc = "recv"
    /\ items = <<>>
    /\ newParser
    /\ slugs = <<>>
    /\ runs = <<>>

Next ==
    \/ lexBlock
    \/ lexKeyword
    \/ lexKeywordEmitted
    \/ lexKeywordText
    \/ lexHeading
    \/ lexUnorderedList
    \/ lexOrderedList
    \/ lexItemEmitted
    \/ lexParagraph
    \/ lexParagraphEmitted
    \/ lexParagraphEofA
    \/ lexParagraphEofB
    \/ lexClose
    \/ collect

Spec == Init /\ [][Next]_vars

\* Documents of whole lines: blocks, and metadata directives.
BlockSegments ==
    { <<"-", SP, "a">>, <<"1", ".", SP, "b">>, <<"*", SP, "c">>, <<"d">>,
      <<"%", "p", "r", "e">>, <<"%", "f", "i", "g", "u", "r", "e", SP, "e">>,
      <<"%", "f", "o", "o", "t", "n", "o", "t", "e", "s">>, <<NL>> }

MetadataSegments ==
    { <<"%", "d", "a", "t", "e", SP, "2", "0", "0", "6", "-", "0", "1", "-", "0", "2">>,
      <<"%", "d", "a", "t", "e", SP, "2", "0", "0", "6", "-", "0", "2", "-", "3", "0">>,
      <<"%", "t", "i", "t", "l", "e", SP, "t">>,
      <<"%", "t", "i", "t", "l", "e">>,
      <<"d">>, <<NL>> }

\* Metadata directives, one per line: every field with two values, with an
\* empty value, and the date also with a day that does not exist.
DirectiveLines ==
    { <<"%", "t", "i", "t", "l", "e", SP, "t", NL>>,
      <<"%", "t", "i", "t", "l", "e", SP, "u", NL>>,
      <<"%", "t", "i", "t", "l", "e", NL>>,
      <<"%", "s", "u", "b", "t", "i", "t", "l", "e", SP, "s", NL>>,
      <<"%", "s", "u", "b", "t", "i", "t", "l", "e", NL>>,
      <<"%", "d", "a", "t", "e", SP, "2", "0", "0", "6", "-", "0", "1", "-", "0", "2", NL>>,
      <<"%", "d", "a", "t", "e", SP, "2", "0", "2", "4", "-", "0", "2", "-", "2", "9", NL>>,
      <<"%", "d", "a", "t", "e", NL>>,
      <<"%", "a", "u", "t", "h", "o", "r", SP, "a", NL>>,
      <<"%", "a", "u", "t", "h", "o", "r", NL>> }

\* Documents of at most MaxDirectives directives.
MetadataDocs == Concats(DirectiveLines, MaxDirectives)

\* A block directive and what may follow it: lines of body, an empty line
\* and another block, a list, another directive, nothing.
SentinelWords ==
    { <<"f", "i", "g", "u", "r", "e", SP, "e">>, <<"p", "r", "e">>,
      <<"h", "t", "m", "l">>, <<"b", "l", "o", "c", "k", "q", "u", "o", "t", "e">>,
      <<"f", "o", "o", "t", "n", "o", "t", "e", "s">> }

SentinelTails ==
    { <<NL>>, <<NL, "h">>, <<NL, "h", NL, "c">>, <<NL, "h", NL, "c", NL, "g">>,
      <<NL, "h", NL, NL, "d">>, <<NL, "h", NL, "c", NL, NL, "*", SP, "d">>,
      <<NL, "h", NL, "%", "p", "r", "e", NL, "x">>,
      <<NL, NL, "-", SP, "a", NL, "-", SP, "b">>,
      <<NL, "-", SP, "7", NL, "-", SP, "3", NL, "-", SP, "3">>,
      <<NL, "-", SP, "a", NL, "-", SP, "b", NL, NL, "1", ".", SP, "c">> }

SentinelDocs == { <<"%">> \o k \o t : k \in SentinelWords, t \in SentinelTails }

\* Headings of one to five stars.
HeadingStars ==
    { <<"*">>, <<"*", "*">>, <<"*", "*", "*">>, <<"*", "*", "*", "*">>,
      <<"*", "*", "*", "*", "*">> }

HeadingTexts == { <<"a">>, <<"A", SP, "1", NL, "b">> }

HeadingLines == { h \o <<SP>> \o t : h \in HeadingStars, t \in HeadingTexts }

ParseInputs ==
    Concats(BlockSegments, MaxSegs) \cup Concats(MetadataSegments, MaxSegs)
        \cup MetadataDocs \cup SentinelDocs \cup HeadingLines

\* A run of Parse(s): the lexer goroutine and the parser; collect() does not run.
InitParse ==
    /\ \E s \in ParseInputs : lex(s)
    /\ cpc = "done"
    /\ items = <<>>
    /\ newParser
    /\ slugs = <<>>
    /\ runs = <<>>

NextParse ==
    \/ lexBlock
    \/ lexKeyword
    \/ lexKeywordEmitted
    \/ lexKeywordText
    \/ lexHeading
    \/ lexUnorderedList
    \/ lexOrderedList
    \/ lexItemEmitted
    \/ lexParagraph
    \/ lexParagraphEmitted
    \/ lexParagraphEofA
    \/ lexParagraphEofB
    \/ lexClose
    \/ Parse
    \/ collectItems
    \/ parseFigure
    \/ parseFigureCaption

SpecParse == InitParse /\ [][NextParse]_vars

\* Paragraphs of one and two lines, ended by the end of the input, by an
\* empty line, or followed by another paragraph.
ParagraphLines ==
    { p \o t : p \in { <<"d">>, <<"a", NL, "b">>, <<"a", SP>> },
               t \in { <<>>, <<NL>>, <<NL, NL>>, <<NL, NL, "c">>, <<NL, SP, NL, "c">> } }

\* Documents for the emitter: metadata directives, block directives with
\* their bodies, headings, paragraphs.
HTMLInputs == MetadataDocs \cup SentinelDocs \cup HeadingLines \cup ParagraphLines

\* A run of Parse(s), then calls of HTML on the Document it returned.
InitHTML ==
    /\ \E s \in HTMLInputs : lex(s)
    /\ cpc = "done"
    /\ items = <<>>
    /\ newParser
    /\ slugs = <<>>
    /\ runs = <<>>

NextHTML ==
    \/ lexBlock
    \/ lexKeyword
    \/ lexKeywordEmitted
    \/ lexKeywordText
    \/ lexHeading
    \/ lexUnorderedList
    \/ lexOrderedList
    \/ lexItemEmitted
    \/ lexParagraph
    \/ lexParagraphEmitted
    \/ lexParagraphEofA
    \/ lexParagraphEofB
    \/ lexClose
    \/ Parse
    \/ collectItems
    \/ parseFigure
    \/ parseFigureCaption
    \/ HTML

SpecHTML == InitHTML /\ [][NextHTML]_vars

\* Documents for repeated runs: block directives with their bodies,
\* headings, paragraphs, and the keyword lines of the lexer.
RunInputs == SentinelDocs \cup HeadingLines \cup KeywordLines \cup ParagraphLines

InitRuns ==
    /\ \E s \in RunInputs : lex(s)
    /\ cpc = "done"
    /\ items = <<>>
    /\ newParser
    /\ slugs = <<>>
    /\ runs = <<>>

\* The caller has the result of a run (Parse has panicked, or it has
\* returned and HTML has been called) and starts the next run on the same
\* input: a new lexer, a new parser.
Rerun ==
    /\ ppc = "panic" \/ (ppc = "return" /\ Len(out) = 1)
    /\ Len(runs) < MaxRuns - 1
    /\ runs' = Append(runs, [sent |-> sent, ret |-> ret, out |-> out])
    /\ input' = input
    /\ pos' = 0 /\ start' = 0 /\ width' = 0
    /\ word' = <<>>
    /\ lpc' = "lexBlock"
    /\ chan' = <<>>
    /\ closed' = FALSE
    /\ entered' = [f \in StateFns |-> -1]
    /\ ppc' = "Parse"
    /\ peekCount' = 0
    /\ token' = ZeroItem
    /\ doc' = [metadata |-> [title |-> <<>>, subtitle |-> <<>>,
                             date |-> ZeroTime, author |-> <<>>],
               content |-> <<>>]
    /\ caller' = ""
    /\ collected' = <<>>
    /\ fig' = <<>>
    /\ ret' = <<>>
    /\ printed' = 0
    /\ sent' = <<>>
    /\ returned' = <<>>
    /\ phantom' = FALSE
    /\ out' = <<>>
    /\ UNCHANGED <<cpc, items, slugs>>

\* Runs of Parse(s) and HTML, one after the other on the same input.
NextRuns ==
    \/ lexBlock
    \/ lexKeyword
    \/ lexKeywordEmitted
    \/ lexKeywordText
    \/ lexHeading
    \/ lexUnorderedList
    \/ lexOrderedList
    \/ lexItemEmitted
    \/ lexParagraph
    \/ lexParagraphEmitted
    \/ lexParagraphEofA
    \/ lexParagraphEofB
    \/ lexClose
    \/ Parse
    \/ collectItems
    \/ parseFigure
    \/ parseFigureCaption
    \/ HTML
    \/ Rerun

SpecRuns == InitRuns /\ [][NextRuns]_vars

\* The bytes of the strings passed to slugify: letters, a digit, a space,
\* `-`, `<`, `>` and `&`.
SlugAlphabet == {"a", "B", "1", SP, "-", "<", ">", "&"}

SlugInputs == Concats({ <<c>> : c \in SlugAlphabet }, MaxSlugLen)

\* A caller that passes a string through slugify again and again; no lexer
\* and no parser runs.
InitSlugify ==
    /\ lex(<<>>)
    /\ cpc = "done"
    /\ items = <<>>
    /\ newParser
    /\ \E s \in SlugInputs : slugs = <<s>>
    /\ runs = <<>>

NextSlugify ==
    \/ slugifyCall

SpecSlugify == InitSlugify /\ [][NextSlugify]_vars

\* The lexer goroutine and the goroutine that runs Parse.
LexerStep ==
    \/ lexBlock \/ lexKeyword \/ lexKeywordEmitted \/ lexKeywordText
    \/ lexHeading \/ lexUnorderedList \/ lexOrderedList \/ lexItemEmitted
    \/ lexParagraph \/ lexParagraphEmitted \/ lexParagraphEofA
    \/ lexParagraphEofB \/ lexClose

ParserStep == Parse \/ collectItems \/ parseFigure \/ parseFigureCaption

\* The Go scheduler runs every goroutine that can run.
FairParse == SpecParse /\ WF_vars(LexerStep) /\ WF_vars(ParserStep)

\* The lexer goroutine and a consumer that keeps receiving: collect(), up to
\* the terminal item.
FairLex == Spec /\ WF_vars(LexerStep) /\ WF_vars(collect)

\* A run of collect() that its caller may leave at any point to call drain().
InitDrain ==
    /\ \E s \in RunInputs : lex(s)
    /\ cpc = "recv"
    /\ items = <<>>
    /\ newParser
    /\ slugs = <<>>
    /\ runs = <<>>

NextDrain ==
    \/ lexBlock
    \/ lexKeyword
    \/ lexKeywordEmitted
    \/ lexKeywordText
    \/ lexHeading
    \/ lexUnorderedList
    \/ lexOrderedList
    \/ lexItemEmitted
    \/ lexParagraph
    \/ lexParagraphEmitted
    \/ lexParagraphEofA
    \/ lexParagraphEofB
    \/ lexClose
    \/ collect
    \/ drainCall
    \/ drain

SpecDrain == InitDrain /\ [][NextDrain]_vars

\* The scheduler runs the lexer goroutine and the goroutine blocked in drain().
FairDrain == SpecDrain /\ WF_vars(LexerStep) /\ WF_vars(drain)


(***************************************************************************)
(* Properties of the lexer, checked under Spec.                            *)
(***************************************************************************)

\* Everything the lexer has sent or is blocked sending, in emission order.
Sent == items \o chan

IsTerminal(it) == it.typ \in {itemEOF, itemError}

\* input[from:to], the bytes at offsets from .. to-1
Slice(from, to) == SubSeq(input, from + 1, to)

\* C1: the items the lexer sends hold exactly one terminal item (EOF or
\* Error) and it is the last one: every terminal item among those sent or
\* offered is the last of them, and when the channel is closed the last item
\* received is terminal.
C1_OneTerminalItemLast ==
    /\ \A i \in 1..Len(Sent) : IsTerminal(Sent[i]) => i = Len(Sent)
    /\ closed => (chan = <<>> /\ items # <<>> /\ IsTerminal(items[Len(items)]))
    /\ lpc # "panic"

\* C1's case: the channel is closed after an Error item that followed other items.
C1_Witness ==
    /\ closed
    /\ Len(items) >= 3
    /\ items[Len(items)].typ = itemError

\* C7: the value of every item that is not an Error is the substring of the
\* input that starts at the item's offset.
C7_ValueIsInputAtOffset ==
    \A i \in 1..Len(Sent) :
        Sent[i].typ # itemError =>
            /\ Sent[i].pos + Len(Sent[i].val) <= Len(input)
            /\ Sent[i].val = Slice(Sent[i].pos, Sent[i].pos + Len(Sent[i].val))

\* C7's case: a non-empty value, holding a two-byte rune, that starts past offset 0.
C7_Witness ==
    \E i \in 1..Len(items) :
        /\ items[i].typ = itemParagraph
        /\ items[i].pos > 0
        /\ \E k \in 1..Len(items[i].val) : items[i].val[k] = LeadByte

\* C8 as claimed: every EOF item has an empty value and its offset is the
\* length of the input.
C8_EOFAtEndOfInput ==
    \A i \in 1..Len(Sent) :
        Sent[i].typ = itemEOF => (Sent[i].val = <<>> /\ Sent[i].pos = Len(input))

\* C9: the offsets of the emitted items, the terminal item included, never decrease.
C9_OffsetsNonDecreasing ==
    \A i \in 1..Len(Sent) : \A j \in i..Len(Sent) : Sent[i].pos <= Sent[j].pos

\* C9's case: an Error item sent at a larger offset than the item before it.
C9_Witness ==
    /\ Len(items) >= 2
    /\ items[Len(items)].typ = itemError
    /\ 0 < items[1].pos
    /\ items[1].pos < items[Len(items)].pos

\* The number of `*` bytes that start at offset b.
StarRun(b) ==
    CHOOSE n \in 0..Len(input) :
        /\ \A k \in 0..(n - 1) : b + k < Len(input) /\ input[b + k + 1] = "*"
        /\ ~(b + n < Len(input) /\ input[b + n + 1] = "*")

\* The number of space and tab bytes that start at offset b.
BlankRun(b) ==
    CHOOSE n \in 0..Len(input) :
        /\ \A k \in 0..(n - 1) : b + k < Len(input) /\ input[b + k + 1] \in {SP, TAB}
        /\ ~(b + n < Len(input) /\ input[b + n + 1] \in {SP, TAB})

\* The offset of the first newline at or after offset b, or the input's length.
EndOfLine(b) ==
    CHOOSE e \in b..Len(input) :
        /\ \A k \in b..(e - 1) : input[k + 1] # NL
        /\ e < Len(input) => input[e + 1] = NL

\* The heading item the claim describes for a block that starts at offset b.
HeadingItemAt(b) ==
    LET n == StarRun(b)
        v == b + n + BlankRun(b + n)
    IN  item(IF n = 1 THEN itemHeadingOne
             ELSE IF n = 2 THEN itemHeadingTwo ELSE itemHeadingThree,
             Slice(v, EndOfLine(v)), v)

\* C10: when lexBlock has dispatched to lexHeading at a block that starts
\* with n >= 1 stars followed by a space or tab, lexHeading sends exactly the
\* one heading item of level min(n, 3) whose value is the rest of the line
\* after the blanks, and hands control back to lexBlock.
C10_HeadingItem ==
    [][ (LexAt("lexHeading") /\ BlankRun(start + StarRun(start)) >= 1)
            => (chan' = <<HeadingItemAt(start)>> /\ lpc' = "emitItem") ]_vars

\* C10's case: more than three stars, then blanks, then text: a HeadingThree.
C10_Witness ==
    /\ lpc = "emitItem"
    /\ chan # <<>>
    /\ chan[1].typ = itemHeadingThree
    /\ chan[1].val # <<>>
    /\ StarRun(0) >= 4
    /\ chan[1].pos = 4 + BlankRun(4)

(***************************************************************************)
(* Properties of Parse, checked under SpecParse and FairParse.             *)
(***************************************************************************)

\* Parse has returned the error e to its caller.
ReturnedError(e) == ppc = "return" /\ ret[1].err = e

\* C2: for every input Parse terminates: it returns to its caller after
\* finitely many steps and never loops or blocks forever.
C2_ParseReturns == <>(ppc \in {"return", "panic"})

\* C3: once the parser's next() has handed the lexer's Error item to Parse,
\* Parse has returned a non-nil error that is the lexer's message.
C3_ErrorItemAborts ==
    \A i \in 1..Len(returned) :
        returned[i].typ = itemError => ReturnedError(returned[i].val)

\* C4: once Parse has been handed a Date item whose non-empty value is not a
\* YYYY-MM-DD date, it has returned a non-nil error to its caller.
C4_InvalidDateReturnsError ==
    \A i \in 1..Len(returned) :
        (/\ returned[i].typ = itemDate
         /\ returned[i].val # <<>>
         /\ ~ValidDate(returned[i].val))
        => (ppc = "return" /\ ret[1].err # "nil")

\* C5: whenever the parser has stopped receiving items, the lexer goroutine
\* eventually terminates: it is not left blocked on its channel send.
C5_LexerTerminates == (ppc \in {"return", "panic"}) ~> (lpc = "exit")

\* C6: the items next() has returned, an item returned again after backup()
\* counted once, are the items the lexer has sent, in the order it sent
\* them, and next() has returned nothing that the lexer did not send.
C6_ReturnedAreSent ==
    /\ Len(returned) <= Len(sent)
    /\ returned = SubSeq(sent, 1, Len(returned))
    /\ Len(sent) - Len(returned) <= peekCount
    /\ ~phantom

(***************************************************************************)
(* Properties of the block states of the lexer, checked under Spec.        *)
(***************************************************************************)

\* The number of decimal digit bytes that start at offset b.
DigitRun(b) ==
    CHOOSE n \in 0..Len(input) :
        /\ \A k \in 0..(n - 1) : b + k < Len(input) /\ isDigit(input[b + k + 1])
        /\ ~(b + n < Len(input) /\ isDigit(input[b + n + 1]))

\* The byte at offset b is c.
ByteIs(b, c) == b < Len(input) /\ input[b + 1] = c

\* lexBlock has just dispatched on the byte c at l.start, the block's first.
BlockStart(at, c) == LexAt(at) /\ ByteIs(start, c) /\ pos = start + 1

\* A block that starts at l.start fails the shape check of the state the
\* lexer is about to run: stars, `-` or digits and `.` with no space or tab
\* after them, or digits with no `.` after them.
ShapeFails ==
    \/ BlockStart("lexHeading", "*") /\ BlankRun(start + StarRun(start)) = 0
    \/ BlockStart("lexUnorderedList", "-") /\ BlankRun(start + 1) = 0
    \/ /\ \E d \in {"0", "1", "2", "3", "4", "5", "6", "7", "8", "9"} :
              BlockStart("lexOrderedList", d)
       /\ \/ ~ByteIs(start + DigitRun(start), ".")
          \/ BlankRun(start + DigitRun(start) + 1) = 0

\* C11: a block prefix that fails its shape check sends nothing and goes to
\* lexParagraph with the prefix kept (l.start stays at its first byte), and
\* lexParagraph entered with a consumed prefix sends one Paragraph item
\* whose offset is that first byte and whose value starts with the prefix.
C11_FallThroughKeepsPrefix ==
    [][ /\ ShapeFails =>
            (lpc' = "lexParagraph" /\ chan' = <<>> /\ start' = start /\ pos' >= pos)
        /\ (LexAt("lexParagraph") /\ pos > start) =>
            (/\ pos' >= pos
             /\ chan' = <<item(itemParagraph, Slice(start, pos'), start)>>) ]_vars

\* C11's case: the block `1.a` at offset 1 came out as one Paragraph item.
C11_Witness ==
    /\ lpc \in {"emitParagraph", "emitParagraphA", "emitParagraphB"}
    /\ chan = <<item(itemParagraph, <<"1", ".", "a">>, 1)>>

\* The nine keywords of the language and the sentinel of each.
NineKeywords ==
    { <<(<<"t", "i", "t", "l", "e">>), itemTitle>>,
      <<(<<"s", "u", "b", "t", "i", "t", "l", "e">>), itemSubtitle>>,
      <<(<<"d", "a", "t", "e">>), itemDate>>,
      <<(<<"a", "u", "t", "h", "o", "r">>), itemAuthor>>,
      <<(<<"p", "r", "e">>), itemPre>>,
      <<(<<"h", "t", "m", "l">>), itemHTML>>,
      <<(<<"f", "i", "g", "u", "r", "e">>), itemFigure>>,
      <<(<<"f", "o", "o", "t", "n", "o", "t", "e", "s">>), itemFootnotes>>,
      <<(<<"b", "l", "o", "c", "k", "q", "u", "o", "t", "e">>), itemBlockquote>> }

\* The bytes a and b are the same letter in either case, or the same byte.
SameLetter(a, b) ==
    a = b \/ \E i \in 1..26 : {a, b} = {UpperCase[i], LowerCase[i]}

\* The words u and v are equal when case is ignored.
SameWord(u, v) ==
    Len(u) = Len(v) /\ \A i \in 1..Len(u) : SameLetter(u[i], v[i])

\* The offset of the first space, tab or newline at or after b, or the
\* input's length: where the token that starts at b ends.
TokenEnd(b) ==
    CHOOSE e \in b..Len(input) :
        /\ \A k \in b..(e - 1) : input[k + 1] \notin {SP, TAB, NL}
        /\ e < Len(input) => input[e + 1] \in {SP, TAB, NL}

\* C12: a `%word` token that a space, tab or newline ends is matched against
\* the nine keywords with case ignored.  A match sends the sentinel of that
\* keyword; no match sends the Error `unrecognized keyword` that names the
\* word, at the token's offset, and the lexer then sends nothing more.
C12_KeywordLookup ==
    [][ /\ (LexAt("lexKeyword") /\ TokenEnd(start) < Len(input)) =>
            LET w == Slice(start + 1, TokenEnd(start))
            IN  IF \E e \in NineKeywords : SameWord(e[1], w)
                THEN /\ lpc' = "emitKeyword"
                     /\ Len(chan') = 1
                     /\ \E e \in NineKeywords :
                            SameWord(e[1], w) /\ chan'[1].typ = e[2]
                ELSE /\ lpc' = "errorf"
                     /\ Len(chan') = 1
                     /\ chan'[1].typ = itemError
                     /\ chan'[1].pos = start
                     /\ Len(chan'[1].val) = Len(w) + 4
                     /\ chan'[1].val[1] = "unrecognized keyword: "
                     /\ SameWord(SubSeq(chan'[1].val, 4, Len(w) + 3), w)
        /\ (lpc = "errorf" /\ chan = <<>>) => (lpc' = "exit" /\ chan' = <<>> /\ closed')
      ]_vars

\* C12's case: `%hTmL` was sent as the HTML sentinel and the word `%z` after
\* it as the Error, the last item before the channel is closed.
C12_Witness ==
    /\ closed
    /\ Len(items) = 2
    /\ Len(input) >= 5
    /\ SubSeq(input, 1, 5) = <<"%", "h", "T", "m", "L">>
    /\ items[1].typ = itemHTML
    /\ items[2] = item(itemError, <<"unrecognized keyword: ", "\"", "%", "z", "\"">>, 6)

\* The lexer is in the body loop of a keyword block, about to run an
\* iteration: after the send of the keyword's sentinel (Footnotes has no
\* body loop) or after the send of a Text item.
InKeywordBody ==
    \/ LexAt("emitKeyword") /\ keyOf(word) # itemFootnotes
    \/ LexAt("emitText")

\* In the body loop the line that ends at l.pos is followed by a line that
\* is not empty and does not start with `%`.
BodyLineFollows ==
    /\ InKeywordBody
    /\ ByteIs(pos, NL)
    /\ EndOfLine(pos + 1) > pos + 1
    /\ ~ByteIs(pos + 1, "%")

\* C13: in a keyword block every line that is not empty and does not start
\* with `%` is sent as one Text item whose value is the whole line, its
\* spaces and tabs included, and the lexer stays in the block: also for a
\* line of spaces and tabs only.
C13_BodyLineVerbatim ==
    [][ BodyLineFollows =>
            /\ chan' = <<item(itemText, Slice(pos + 1, EndOfLine(pos + 1)), pos + 1)>>
            /\ lpc' = "emitText"
            /\ pos' = EndOfLine(pos + 1) ]_vars

\* C13's case: the lines ` a `, a tab alone, and `b` of one block, each sent
\* as a Text item.
C13_Witness ==
    /\ lpc = "emitText"
    /\ Len(items) = 3
    /\ items[2].typ = itemText /\ items[2].val = <<SP, "a", SP>>
    /\ items[3].typ = itemText /\ items[3].val = <<TAB>>
    /\ chan # <<>> /\ chan[1].typ = itemText /\ chan[1].val = <<"b">>

\* The item types of the nine keywords' sentinels.
SentinelTypes == { e[2] : e \in NineKeywords }

\* C14: in the body loop of a keyword block, after the keyword line or after
\* a body line, a line that starts with `%` ends the block at once: the
\* lexer sends nothing for it and scans it as a keyword, and the item that
\* scan sends is a keyword's sentinel or an Error, at or after the `%`.
C14_PercentEndsBlock ==
    [][ /\ (InKeywordBody /\ ByteIs(pos, NL) /\ ByteIs(pos + 1, "%")) =>
            (lpc' = "lexKeyword" /\ chan' = <<>> /\ start' = pos + 1 /\ pos' = pos + 1)
        /\ LexAt("lexKeyword") =>
            (/\ Len(chan') = 1
             /\ chan'[1].typ \in SentinelTypes \cup {itemError}
             /\ chan'[1].pos >= start
             /\ lpc' \in {"emitKeyword", "errorf"}) ]_vars

\* C14's case: the line `%pre` right after the body line `a` of an HTML
\* block was sent as the Pre sentinel, with no blank line between them.
C14_Witness ==
    /\ lpc = "emitKeyword"
    /\ Len(items) = 2
    /\ items[1].typ = itemHTML
    /\ items[2].typ = itemText /\ items[2].val = <<"a">>
    /\ chan # <<>> /\ chan[1].typ = itemPre
    /\ chan[1].pos = items[2].pos + 6

\* An empty line lies between offsets a and b: two newlines in a row, the
\* first at or after a and the second before b.
EmptyLineBetween(a, b) ==
    \E k \in a..(b - 2) : ByteIs(k, NL) /\ ByteIs(k + 1, NL)

\* The index, among the items sent, of the last keyword sentinel before the
\* item of index i; 0 if there is none.
SentinelBefore(i) ==
    IF \E j \in 1..(i - 1) : Sent[j].typ \in SentinelTypes
    THEN CHOOSE j \in 1..(i - 1) :
             /\ Sent[j].typ \in SentinelTypes
             /\ \A k \in (j + 1)..(i - 1) : Sent[k].typ \notin SentinelTypes
    ELSE 0

\* C15: an empty line ends a keyword block.  In the body loop an empty line
\* sends nothing and hands control to lexBlock at the byte after it; and
\* every Text item sent belongs to the last sentinel before it, with no
\* empty line between that sentinel and the Text item's line.
C15_EmptyLineEndsBlock ==
    /\ [](\A i \in 1..Len(Sent) :
            Sent[i].typ = itemText =>
                /\ SentinelBefore(i) > 0
                /\ ~EmptyLineBetween(Sent[SentinelBefore(i)].pos, Sent[i].pos + 1))
    /\ [][ (InKeywordBody /\ ByteIs(pos, NL) /\ ByteIs(pos + 1, NL)) =>
             (lpc' = "lexBlock" /\ chan' = <<>> /\ pos' = pos + 2 /\ start' = pos + 2)
         ]_vars

\* C15's case: after the body line `a` and an empty line, the line `- b` was
\* sent as an UnorderedList item, not as Text.
C15_Witness ==
    /\ lpc = "emitItem"
    /\ Len(items) = 2
    /\ items[1].typ \in SentinelTypes
    /\ items[2].typ = itemText /\ items[2].val = <<"a">>
    /\ chan = <<item(itemUnorderedList, <<"b">>, items[2].pos + 5)>>

\* The message of the Error that a Footnotes sentinel without a list raises.
FootnotesMessage == <<"footnotes must be given as an unordered list">>

\* C16 as claimed: after the send of a Footnotes sentinel whose line a newline
\* ends, the lexer consumes the newline; if the first byte after it that is
\* not a space or tab is `-`, it sends no Error and goes on to the list, and
\* otherwise it sends the Error `footnotes must be given as an unordered
\* list` and stops.
C16_FootnotesList ==
    [][ (LexAt("emitKeyword") /\ keyOf(word) = itemFootnotes /\ ByteIs(pos, NL)) =>
            IF ByteIs(pos + 1 + BlankRun(pos + 1), "-")
            THEN chan' = <<>> /\ lpc' = "lexUnorderedList"
            ELSE chan' = <<item(itemError, FootnotesMessage, pos)>> /\ lpc' = "errorf"
      ]_vars

\* The messages of the five `unexpected eof` errors of the lexer.
EofMessages ==
    { <<"unexpected eof while scanning keyword">>,
      <<"unexpected eof while scanning keyword delimiter">>,
      <<"unexpected eof while scanning heading delimiter">>,
      <<"unexpected eof while scanning unordered list delimiter">>,
      <<"unexpected eof while scanning ordered list delimiter">> }

\* The space and tab run that starts at offset b is not empty and runs up to
\* the end of the input.
BlanksToEof(b) == BlankRun(b) >= 1 /\ b + BlankRun(b) = Len(input)

\* The input ends inside the scan the lexer is about to run, before the text
\* of its item: in the keyword, or in the spaces and tabs after a keyword,
\* after a heading's stars, after a `-` or after an ordered item's `.`.
EofInScan ==
    \/ /\ LexAt("lexKeyword")
       /\ \/ TokenEnd(start) = Len(input)
          \/ /\ \E e \in NineKeywords :
                    SameWord(e[1], Slice(start + 1, TokenEnd(start)))
             /\ BlanksToEof(TokenEnd(start))
    \/ BlockStart("lexHeading", "*") /\ BlanksToEof(start + StarRun(start))
    \/ BlockStart("lexUnorderedList", "-") /\ BlanksToEof(start + 1)
    \/ /\ \E d \in {"0", "1", "2", "3", "4", "5", "6", "7", "8", "9"} :
              BlockStart("lexOrderedList", d)
       /\ ByteIs(start + DigitRun(start), ".")
       /\ BlanksToEof(start + DigitRun(start) + 1)

\* C17 as claimed: when the input ends inside a keyword, heading or list scan
\* before the text of its item, the lexer sends an Error `unexpected eof
\* while scanning ...` and stops, so that no EOF item follows.
C17_EofInScanIsError ==
    [][ EofInScan =>
            /\ Len(chan') = 1
            /\ chan'[1].typ = itemError
            /\ chan'[1].val \in EofMessages
            /\ lpc' = "errorf" ]_vars

\* The offset of the first empty line at or after offset b (the offset of
\* the first of two newlines in a row), or the input's length.
ParagraphStop(b) ==
    CHOOSE e \in b..Len(input) :
        /\ \A k \in b..(e - 1) : ~(ByteIs(k, NL) /\ ByteIs(k + 1, NL))
        /\ e < Len(input) => (ByteIs(e, NL) /\ ByteIs(e + 1, NL))

\* C18: lexParagraph sends exactly one Paragraph item for the lines from
\* l.start up to, and without, the first empty line or the end of the input,
\* with the newlines between the lines as they are; so no Paragraph item's
\* value holds two newlines in a row.
C18_OneParagraphPerGroup ==
    /\ [](\A i \in 1..Len(Sent) :
            Sent[i].typ = itemParagraph =>
                \A k \in 1..(Len(Sent[i].val) - 1) :
                    ~(Sent[i].val[k] = NL /\ Sent[i].val[k + 1] = NL))
    /\ [][ LexAt("lexParagraph") =>
             /\ chan' = <<item(itemParagraph, Slice(start, ParagraphStop(pos)), start)>>
             /\ pos' = ParagraphStop(pos)
             /\ lpc' \in {"emitParagraph", "emitParagraphA", "emitParagraphB"}
             /\ (lpc' = "emitParagraph") = (ParagraphStop(pos) < Len(input))
         ]_vars

\* C18's case: two groups of two lines with an empty line between them: the
\* first was sent as one Paragraph item, the second is being sent as another.
C18_Witness ==
    /\ Len(items) = 1
    /\ items[1] = item(itemParagraph, <<"a", NL, "b">>, 0)
    /\ chan = <<item(itemParagraph, <<"a", NL, "b">>, 5)>>

\* The list item the claim describes for a marker that ends at offset m (the
\* offset after `-` or after the `.`): its value starts after the spaces and
\* tabs that follow the marker and ends before the newline.
ListItemAt(t, m) ==
    item(t, Slice(m + BlankRun(m), EndOfLine(m + BlankRun(m))), m + BlankRun(m))

\* C19: at a block that starts with `-`, or with digits and `.`, followed by
\* at least one space or tab, the lexer sends exactly one UnorderedList or
\* OrderedList item whose value is the rest of the line after the marker and
\* its blanks, and goes back to lexBlock at the end of that line, so that
\* the next such line gives the next item.
C19_ListItemPerLine ==
    [][ /\ (BlockStart("lexUnorderedList", "-") /\ BlankRun(start + 1) >= 1) =>
            /\ chan' = <<ListItemAt(itemUnorderedList, start + 1)>>
            /\ lpc' = "emitItem"
            /\ pos' = EndOfLine(pos)
        /\ (/\ \E d \in {"0", "1", "2", "3", "4", "5", "6", "7", "8", "9"} :
                  BlockStart("lexOrderedList", d)
            /\ ByteIs(start + DigitRun(start), ".")
            /\ BlankRun(start + DigitRun(start) + 1) >= 1) =>
            /\ chan' = <<ListItemAt(itemOrderedList, start + DigitRun(start) + 1)>>
            /\ lpc' = "emitItem"
            /\ pos' = EndOfLine(pos)
        /\ LexAt("emitItem") => (lpc' = "lexBlock" /\ pos' = pos /\ chan' = <<>>)
      ]_vars

\* C19's case: the two list lines `- a` and `- a` gave two items in source
\* order, and the ordered line `1. b` after them is giving a third.
C19_Witness ==
    /\ lpc = "emitItem"
    /\ items = << item(itemUnorderedList, <<"a">>, 2), item(itemUnorderedList, <<"a">>, 6) >>
    /\ chan = <<item(itemOrderedList, <<"b">>, 11)>>

(***************************************************************************)
(* Properties of Parse's list blocks, checked under SpecParse.             *)
(***************************************************************************)

\* collectItems, called for a list, appends the item that p.next() returns
\* to a list that already holds the item returned before it.
CollectsNextListItem ==
    /\ ppc = "collectItems"
    /\ caller \in {"parseUnorderedList", "parseOrderedList"}
    /\ collected # <<>>
    /\ collected' = Append(collected, token'.val)

\* C20 as claimed: a blank line ends a run of list items, so Parse never
\* collects into one list block two items whose lines an empty line
\* separates.
C20_BlankLineSplitsList ==
    [][ CollectsNextListItem => ~EmptyLineBetween(token.pos, token'.pos) ]_vars


(***************************************************************************)
(* Properties of the Document, checked under SpecParse.                    *)
(***************************************************************************)

\* The indices in `returned` of the directives of type t whose value is not
\* empty.
Directives(t) ==
    { i \in 1..Len(returned) : returned[i].typ = t /\ returned[i].val # <<>> }

\* The value of the last directive of type t with a non-empty value, or "".
LastValue(t) ==
    IF Directives(t) = {} THEN <<>> ELSE returned[Max(Directives(t))].val

\* The indices in `returned` of the `%date` directives with a valid value.
ValidDates == { i \in Directives(itemDate) : ValidDate(returned[i].val) }

\* The date of the last valid `%date` directive, or the zero time.
LastDate ==
    IF ValidDates = {} THEN ZeroTime ELSE ParseDate(returned[Max(ValidDates)].val)

\* Parse has just taken a metadata directive with an empty value.
TakesEmptyDirective ==
    /\ ppc = "Parse"
    /\ Len(returned') = Len(returned) + 1
    /\ returned'[Len(returned')].typ \in {itemTitle, itemSubtitle, itemDate, itemAuthor}
    /\ returned'[Len(returned')].val = <<>>

\* C21: at every point of Parse, and so in the Document it returns, title,
\* subtitle and author are the value of the last directive of their kind
\* with a non-empty value (empty if there is none) and date is the date of
\* the last valid `%date`; a directive with an empty value changes neither
\* the metadata nor the content.
C21_MetadataLastWriterWins ==
    /\ [](/\ doc.metadata.title = LastValue(itemTitle)
          /\ doc.metadata.subtitle = LastValue(itemSubtitle)
          /\ doc.metadata.author = LastValue(itemAuthor)
          /\ doc.metadata.date = LastDate)
    /\ [][TakesEmptyDirective => doc' = doc]_vars

\* Parse has returned a Document whose title is the second of two titles,
\* after an empty `%title` that followed both.
C21_Witness ==
    /\ ppc = "return"
    /\ Len(returned) = 4
    /\ returned[1].typ = itemTitle /\ returned[1].val = <<"u">>
    /\ returned[2].typ = itemTitle /\ returned[2].val = <<"t">>
    /\ returned[3].typ = itemTitle /\ returned[3].val = <<>>
    /\ ret[1].doc.metadata.title = <<"t">>

\* The maximal runs <<i, j>> of consecutive items of type t in `returned`,
\* those that directly follow a Footnotes sentinel left out.
ListRuns(t) ==
    { r \in (1..Len(returned)) \X (1..Len(returned)) :
        /\ r[1] <= r[2]
        /\ \A k \in r[1]..r[2] : returned[k].typ = t
        /\ r[1] = 1 \/ returned[r[1] - 1].typ \notin {t, itemFootnotes}
        /\ r[2] = Len(returned) \/ returned[r[2] + 1].typ # t }

\* The values of the items of a run, in order.
RunValues(r) == [k \in 1..(r[2] - r[1] + 1) |-> returned[r[1] + k - 1].val]

\* The indices in the content of the blocks of a kind.
BlocksOf(kind) == { k \in 1..Len(doc.content) : doc.content[k].kind = kind }

\* The n-th block of a kind, counted from 1 in content order.
NthBlock(kind, n) ==
    doc.content[CHOOSE k \in BlocksOf(kind) :
                    Cardinality({ j \in BlocksOf(kind) : j <= k }) = n]

\* The runs of type t and the blocks of a kind correspond one to one, in
\* order, and each block holds the values of its run.
RunsAreBlocks(t, kind) ==
    /\ Cardinality(ListRuns(t)) = Cardinality(BlocksOf(kind))
    /\ \A r \in ListRuns(t) :
           NthBlock(kind, Cardinality({ q \in ListRuns(t) : q[1] <= r[1] })).items
               = RunValues(r)

\* C22: whenever Parse is between two blocks or has returned, every
\* maximal run of UnorderedList (OrderedList) items it has taken, other
\* than the list of a Footnotes sentinel, is exactly one unorderedList
\* (orderedList) block holding the run's values in order.
C22_RunIsOneListBlock ==
    ppc \in {"Parse", "return"} =>
        /\ RunsAreBlocks(itemUnorderedList, "unorderedList")
        /\ RunsAreBlocks(itemOrderedList, "orderedList")

\* The indices in `returned` of the items of type t.
ItemsOf(t) == { i \in 1..Len(returned) : returned[i].typ = t }

\* The value of the item at index i of `returned` if there is one and it is
\* a Text item, else "".
TextAt(i) ==
    IF i <= Len(returned) /\ returned[i].typ = itemText THEN returned[i].val ELSE <<>>

\* The item at index i of `returned` is a Figure item that the main loop
\* took: it is not the item that the parseFigure of the Figure item before
\* it took as t1.
RECURSIVE FigureTaken(_)
FigureTaken(i) ==
    /\ i \in ItemsOf(itemFigure)
    /\ i = 1 \/ ~FigureTaken(i - 1)

\* The indices in `returned` of the Figure items that the main loop took.
Figures == { i \in 1..Len(returned) : FigureTaken(i) }

\* parseFigure has just found that t2 is not a Text item and returned.
FigureWithoutCaption ==
    ppc = "parseFigureCaption" /\ ppc' = "Parse" /\ token'.typ # itemText

\* C23: whenever Parse is between two blocks or has returned, the n-th
\* Figure item its main loop has taken is the n-th figure block: args is
\* the item's value, html the value of the next item if that is Text,
\* caption the value of the item after that if that is Text.  An item after
\* that which is not Text is pushed back, and the main loop's p.next()
\* returns it without a receive.
C23_FigureFields ==
    /\ [](ppc \in {"Parse", "return"} =>
            /\ Cardinality(Figures) = Cardinality(BlocksOf("figure"))
            /\ \A i \in Figures :
                   \E b \in {NthBlock("figure", Cardinality({ j \in Figures : j <= i }))} :
                       /\ b.args = returned[i].val
                       /\ b.html = TextAt(i + 1)
                       /\ b.caption = TextAt(i + 2))
    /\ [][FigureWithoutCaption => peekCount' = 1 /\ returned' = returned]_vars
    /\ [][ppc = "Parse" /\ peekCount = 1 => token' = token /\ sent' = sent]_vars

\* Parse has returned a figure with args, html and caption, and the
\* paragraph after it that the caption scan pushed back.
C23_Witness ==
    /\ ppc = "return"
    /\ Len(doc.content) = 2
    /\ doc.content[1] = [kind |-> "figure", args |-> <<"e">>,
                         html |-> <<"h">>, caption |-> <<"c">>]
    /\ doc.content[2].kind = "heading"

\* The indices in `returned` of the sentinels of type t that the main loop
\* took: those that no parseFigure took as its t1.
Sentinels(t) == { i \in ItemsOf(t) : i = 1 \/ ~FigureTaken(i - 1) }

\* The index of the last item of the maximal run of items of type t that
\* directly follows index i of `returned`; i itself if the run is empty.
RunEnd(i, t) ==
    CHOOSE j \in i..Len(returned) :
        /\ \A k \in (i + 1)..j : returned[k].typ = t
        /\ j = Len(returned) \/ returned[j + 1].typ # t

TextRunEnd(i) == RunEnd(i, itemText)

\* The values of the items after index i up to index j, in order.
ValuesAfter(i, j) == [k \in 1..(j - i) |-> returned[i + k].val]

\* The first n of the lines vs, each but the first after one newline.
RECURSIVE LinesUpTo(_, _)
LinesUpTo(vs, n) ==
    IF n = 0 THEN <<>>
    ELSE IF n = 1 THEN vs[1]
    ELSE LinesUpTo(vs, n - 1) \o <<NL>> \o vs[n]

\* The sentinels of type t and the blocks of a kind correspond one to one,
\* in order, and the text of each block is the lines that follow its
\* sentinel, joined with newlines.
SentinelsAreBlocks(t, kind) ==
    /\ Cardinality(Sentinels(t)) = Cardinality(BlocksOf(kind))
    /\ \A i \in Sentinels(t) :
           NthBlock(kind, Cardinality({ j \in Sentinels(t) : j <= i })).text
               = LinesUpTo(ValuesAfter(i, TextRunEnd(i)), TextRunEnd(i) - i)

\* collectItems has just met an item that is not Text and returned to
\* parseBlockquote, parsePre or parseHTML.
TextRunEnds ==
    /\ ppc = "collectItems" /\ ppc' = "Parse"
    /\ caller \in {"parseBlockquote", "parsePre", "parseHTML"}

Pieces(h, piece) == { i \in 1..Len(h) : h[i] = piece }

\* The number that the digits right after index i of h spell.
NumberAfter(h, i) ==
    Atoi(h, i + 1, CHOOSE j \in i..Len(h) :
                       /\ \A k \in (i + 1)..j : isDigit(h[k])
                       /\ j = Len(h) \/ ~isDigit(h[j + 1]))

\* The 1-based position, in its <footer>, of the last footnote entry that
\* starts at index i of h or before.
EntryPosition(h, i) ==
    Cardinality({ j \in Pieces(h, "<li id=\"fn.") :
                    j <= i /\ \A f \in Pieces(h, "<footer>") : f < i => f < j })

\* The footnotes blocks are the lists of the Footnotes sentinels that the
\* main loop took, one to one and in order.
FootnotesAreBlocks ==
    /\ Cardinality(Sentinels(itemFootnotes)) = Cardinality(BlocksOf("footnotes"))
    /\ \A i \in Sentinels(itemFootnotes) :
           NthBlock("footnotes",
                    Cardinality({ j \in Sentinels(itemFootnotes) : j <= i })).items
               = ValuesAfter(i, RunEnd(i, itemUnorderedList))

HeadingLevels(content) ==
    LET hs == SelectSeq(content, LAMBDA b : b.kind = "heading")
    IN  [n \in 1..Len(hs) |-> hs[n].level]

\* The numbers K of the pieces `<hK` (or `</hK`) of the string h, in order.
RECURSIVE TagNumbers(_, _, _)
TagNumbers(h, piece, i) ==
    IF i > Len(h) THEN <<>>
    ELSE IF h[i] = piece THEN <<NumberAfter(h, i)>> \o TagNumbers(h, piece, i + 1)
    ELSE TagNumbers(h, piece, i + 1)

\* C26: every heading block of the parser has a level in {1, 2, 3}, and in
\* every string that HTML returns the tags of the headings are, in order,
\* h(level + 1) for each heading block, opening and closing: every K is
\* between 2 and 4.
C26_HeadingTags ==
    /\ \A n \in 1..Len(HeadingLevels(doc.content)) :
           HeadingLevels(doc.content)[n] \in {1, 2, 3}
    /\ \A c \in 1..Len(out) :
           /\ TagNumbers(out[c].html, "<h", 1)
                  = [n \in 1..Len(HeadingLevels(ret[1].doc.content)) |->
                        HeadingLevels(ret[1].doc.content)[n] + 1]
           /\ TagNumbers(out[c].html, "</h", 1) = TagNumbers(out[c].html, "<h", 1)
           /\ \A n \in 1..Len(TagNumbers(out[c].html, "<h", 1)) :
                  TagNumbers(out[c].html, "<h", 1)[n] \in 2..4

\* HTML has emitted a heading of five stars as h4.
C26_Witness ==
    /\ Len(out) >= 1
    /\ Len(input) >= 5
    /\ SubSeq(input, 1, 5) = <<"*", "*", "*", "*", "*">>
    /\ ret[1].doc.content[1].kind = "heading"
    /\ TagNumbers(out[1].html, "<h", 1) = <<4>>

(***************************************************************************)
(* Properties of slugify, checked under SpecSlugify.                       *)
(***************************************************************************)

\* C27: slugify is idempotent: slugify of a slug is the slug itself.
C27_SlugifyIdempotent == Len(slugs) >= 3 => slugs[3] = slugs[2]

\* The pieces of markup that open the four fields of the header.
FieldOpeners ==
    { "<h1 class=\"title\">", "<p class=\"subtitle\">", "<p class=\"pubdate\">",
      "<p class=\"author\">" }

\* The openers of the fields in the string h, in the order they appear.
FieldsOf(h) == SelectSeq(h, LAMBDA x : x \in FieldOpeners)

\* The openers the header of the metadata m must have, in the fixed order.
FieldsWanted(m) ==
    (IF m.title # <<>> THEN <<"<h1 class=\"title\">">> ELSE <<>>)
        \o (IF m.subtitle # <<>> THEN <<"<p class=\"subtitle\">">> ELSE <<>>)
        \o (IF m.date # ZeroTime THEN <<"<p class=\"pubdate\">">> ELSE <<>>)
        \o (IF m.author # <<>> THEN <<"<p class=\"author\">">> ELSE <<>>)

\* The value v follows the only piece `opener` of the string h.
ValueFollows(h, opener, v) ==
    \A i \in Pieces(h, opener) :
        i + Len(v) <= Len(h) /\ SubSeq(h, i + 1, i + Len(v)) = v

\* C28: every string that HTML returns has one header element, emitted
\* even when every field is empty; inside it the fields that are not empty
\* (date: not the zero time) appear once each, in the order title,
\* subtitle, date, author, each of title, subtitle and author with its
\* value, and no other field appears.
C28_HeaderOrder ==
    \A c \in 1..Len(out) :
        \E h \in {out[c].html} : \E m \in {ret[1].doc.metadata} :
            /\ Cardinality(Pieces(h, "<header>")) = 1
            /\ Cardinality(Pieces(h, "</header>")) = 1
            /\ FieldsOf(h) = FieldsWanted(m)
            /\ \A i \in 1..Len(h) :
                   h[i] \in FieldOpeners =>
                       /\ \A j \in Pieces(h, "<header>") : j < i
                       /\ \A j \in Pieces(h, "</header>") : i < j
            /\ ValueFollows(h, "<h1 class=\"title\">", m.title)
            /\ ValueFollows(h, "<p class=\"subtitle\">", m.subtitle)
            /\ ValueFollows(h, "<p class=\"author\">", m.author)

\* HTML has emitted title, date, author in this order for a document whose
\* directives are author, date, title.
C28_Witness ==
    /\ Len(out) >= 1
    /\ Len(returned) = 4
    /\ returned[1].typ = itemAuthor /\ returned[2].typ = itemDate
    /\ returned[3].typ = itemTitle
    /\ FieldsOf(out[1].html)
           = <<"<h1 class=\"title\">", "<p class=\"pubdate\">", "<p class=\"author\">">>

\* The item types whose items are content of their own.
ContentTypes ==
    { itemParagraph, itemHeadingOne, itemHeadingTwo, itemHeadingThree,
      itemUnorderedList, itemOrderedList }

\* The type and value of an item.
TypVal(t, v) == [typ |-> t, val |-> v]

\* The items that a block stands for, in order.
ItemsIn(b) ==
    CASE b.kind = "paragraph" -> <<TypVal(itemParagraph, b.text)>>
      [] b.kind = "heading" ->
             <<TypVal(CASE b.level = 1 -> itemHeadingOne
                        [] b.level = 2 -> itemHeadingTwo
                        [] b.level = 3 -> itemHeadingThree, b.text)>>
      [] b.kind \in {"unorderedList", "footnotes"} ->
             [k \in 1..Len(b.items) |-> TypVal(itemUnorderedList, b.items[k])]
      [] b.kind = "orderedList" ->
             [k \in 1..Len(b.items) |-> TypVal(itemOrderedList, b.items[k])]
      [] OTHER -> <<>>

\* The items that the first n blocks of a content stand for, in order.
RECURSIVE ItemsInContent(_, _)
ItemsInContent(content, n) ==
    IF n = 0 THEN <<>> ELSE ItemsInContent(content, n - 1) \o ItemsIn(content[n])

\* The content items among the items the lexer has sent, in order.
ContentItemsSent ==
    LET cs == SelectSeq(sent, LAMBDA it : it.typ \in ContentTypes)
    IN  [k \in 1..Len(cs) |-> TypVal(cs[k].typ, cs[k].val)]

\* C30: when Parse returns, the paragraphs, headings and list entries of
\* the Document are exactly the Paragraph, Heading and list items that the
\* lexer sent, each once and in the order of emission.
C30_ContentItemsKept ==
    ppc = "return" =>
        ItemsInContent(ret[1].doc.content, Len(ret[1].doc.content)) = ContentItemsSent

(***************************************************************************)
(* Properties of repeated runs, checked under SpecRuns.                    *)
(***************************************************************************)

\* The sequences s and t agree wherever both are defined.
Agree(s, t) == \A k \in 1..Len(s) : k <= Len(t) => s[k] = t[k]

\* Two calls of HTML with the same options returned the same string.
SameHTML(a, b) == a.opts = b.opts => a.html = b.html

\* C29: for a fixed input, whatever the interleaving of the lexer goroutine
\* and the parser, a run receives the same items as every earlier run,
\* Parse ends with the same Document (or the same panic), and HTML returns
\* the same string for the same options, in the same run and across runs.
C29_Deterministic ==
    /\ \A c \in 1..Len(out) : \A e \in 1..Len(out) : SameHTML(out[c], out[e])
    /\ \A r \in 1..Len(runs) :
           /\ Agree(sent, runs[r].sent)
           /\ ppc \in {"return", "panic"} => sent = runs[r].sent /\ ret = runs[r].ret
           /\ \A c \in 1..Len(out) : \A e \in 1..Len(runs[r].out) :
                  SameHTML(out[c], runs[r].out[e])

\* A second run has returned a Document of two blocks and HTML has been
\* called with the options of the first run.
C29_Witness ==
    /\ Len(runs) = 1
    /\ ppc = "return"
    /\ Len(ret[1].doc.content) >= 2
    /\ Len(sent) >= 4
    /\ \E c \in 1..Len(out) : out[c].opts = runs[1].out[1].opts

(***************************************************************************)
(* Properties of the lexer at the end of the input, checked under Spec.    *)
(***************************************************************************)

\* The types of the items of heading and list lines.
MarkerTypes ==
    { itemHeadingOne, itemHeadingTwo, itemHeadingThree,
      itemUnorderedList, itemOrderedList }

\* The line that holds offset b is the last of the input and no newline ends it.
LastLine(b) == EndOfLine(b) = Len(input)

\* The EOF item of an input read to its end.
EOFItem == item(itemEOF, <<>>, Len(input))

\* C31: a heading line, an unordered-list line or an ordered-list line that
\* is the last line of the input and has no newline after it gives its
\* normal item, with an empty value when nothing follows the blanks after
\* the marker, and the only item sent after it is EOF, never an Error.
C31_LastLineItem ==
    /\ [](\A i \in 1..Len(Sent) :
              (Sent[i].typ \in MarkerTypes /\ Sent[i].pos + Len(Sent[i].val) = Len(input))
                  => /\ Len(Sent) <= i + 1
                     /\ Len(Sent) = i + 1 => Sent[i + 1] = EOFItem
                     /\ ~closed \/ Len(items) = i + 1)
    /\ [][ /\ ( /\ BlockStart("lexHeading", "*")
                /\ BlankRun(start + StarRun(start)) >= 1
                /\ LastLine(start) ) =>
                    (chan' = <<HeadingItemAt(start)>> /\ lpc' = "emitItem")
           /\ ( /\ BlockStart("lexUnorderedList", "-")
                /\ BlankRun(start + 1) >= 1
                /\ LastLine(start) ) =>
                    (chan' = <<ListItemAt(itemUnorderedList, start + 1)>> /\ lpc' = "emitItem")
           /\ ( /\ \E d \in {"0", "1", "2", "3", "4", "5", "6", "7", "8", "9"} :
                      BlockStart("lexOrderedList", d)
                /\ ByteIs(start + DigitRun(start), ".")
                /\ BlankRun(start + DigitRun(start) + 1) >= 1
                /\ LastLine(start) ) =>
                    ( /\ chan' = <<ListItemAt(itemOrderedList, start + DigitRun(start) + 1)>>
                      /\ lpc' = "emitItem" )
           /\ ( /\ LexAt("lexBlock") /\ pos = Len(input)
                /\ items # <<>> /\ items[Len(items)].typ \in MarkerTypes ) =>
                    (chan' = <<EOFItem>> /\ lpc' = "emitEOF")
         ]_vars

\* C31's case: the input ended in the blanks after a list marker; the list
\* item with the empty value and then EOF were received, and the channel is
\* closed.
C31_Witness ==
    /\ closed
    /\ Len(items) >= 2
    /\ items[Len(items) - 1].typ \in {itemUnorderedList, itemOrderedList}
    /\ items[Len(items) - 1].val = <<>>
    /\ items[Len(items) - 1].pos = Len(input)
    /\ items[Len(items)] = EOFItem

\* The Error of a keyword that the end of the input cuts off, at offset b.
KeywordEofError(b) == item(itemError, <<"unexpected eof while scanning keyword">>, b)

\* C32: when the input ends right after a `%word`, with no space, tab or
\* newline after it, the lexer sends the Error `unexpected eof while scanning
\* keyword` at the word's offset and then stops: the Error is the last item
\* and no item, hence no sentinel, lies at or after the word.  When a space,
\* a tab or a newline follows one of the nine keywords, also as the last
\* byte of the input, its sentinel is sent.
C32_KeywordAtEof ==
    /\ [](\A i \in 1..Len(Sent) :
              (Sent[i].typ = itemError /\ Sent[i].val = KeywordEofError(0).val)
                  => /\ i = Len(Sent)
                     /\ ByteIs(Sent[i].pos, "%")
                     /\ TokenEnd(Sent[i].pos) = Len(input)
                     /\ \A j \in 1..(i - 1) : Sent[j].pos < Sent[i].pos)
    /\ [][ /\ (LexAt("lexKeyword") /\ TokenEnd(start) = Len(input)) =>
                (chan' = <<KeywordEofError(start)>> /\ lpc' = "errorf")
           /\ \A e \in NineKeywords :
                ( /\ LexAt("lexKeyword")
                  /\ TokenEnd(start) < Len(input)
                  /\ SameWord(e[1], Slice(start + 1, TokenEnd(start))) ) =>
                    /\ Len(chan') = 1
                    /\ chan'[1].typ = e[2]
                    /\ chan'[1].pos >= TokenEnd(start)
                    /\ lpc' = "emitKeyword"
         ]_vars

\* C32's case: a `%pre` block with a body line, then a `%` word that the
\* end of the input cuts off: the Pre sentinel, the Text item and the Error
\* were received and the channel is closed.
C32_Witness ==
    /\ closed
    /\ Len(items) = 3
    /\ items[1].typ = itemPre
    /\ items[2].typ = itemText
    /\ items[3] = KeywordEofError(items[3].pos)
    /\ items[3].pos > 0

(***************************************************************************)
(* Progress of the lexer, checked under FairLex.                           *)
(***************************************************************************)

\* C33: no state function of the lexer is entered twice at the same place:
\* l.pos never moves back from one step of the goroutine to the next, and
\* when run() calls a state function l.pos is past where it was at the last
\* call of that function.  So, with a consumer that keeps receiving, the
\* goroutine sends a terminal item and closes the channel.
C33_LexerProgress ==
    /\ [][ /\ pos' >= pos
           /\ \A f \in StateFns : (LexAt(f) /\ lpc' # f) => entered[f] < pos
         ]_vars
    /\ [](lpc # "panic")
    /\ <>(closed /\ lpc = "exit" /\ items # <<>> /\ IsTerminal(items[Len(items)]))

\* C33's case: the channel is closed after lexBlock, lexKeyword and
\* lexParagraph have each been called again, further on in the input.
C33_Witness ==
    /\ closed
    /\ entered["lexBlock"] > 0
    /\ entered["lexKeyword"] > 1
    /\ entered["lexParagraph"] > 0
    /\ entered["lexUnorderedList"] > 0

(***************************************************************************)
(* The parser's one-slot token buffer, checked under SpecParse.            *)
(***************************************************************************)

\* C34: p.peekCount is 0 or 1 in every state of Parse and p.next() never
\* indexes p.token out of range.  Every push-back follows the p.next() of
\* its own step, which has emptied the slot: the token in the slot is then
\* the one that p.next() has just returned, and a p.next() on a full slot
\* returns that token and receives nothing.
C34_OneSlotBuffer ==
    /\ [](peekCount \in {0, 1})
    /\ [][ parvars' # parvars =>
             /\ next.peekCount = 0
             /\ peekCount' <= next.peekCount + 1
             /\ token' = next.token
             /\ peekCount = 1 => (token' = token /\ sent' = sent /\ chan' = chan)
             /\ peekCount' = 1 => returned' = returned
         ]_vars

\* C34's case: collectItems has pushed back the heading that ended a list,
\* after Parse had pushed back and collectItems taken the list's first item.
C34_Witness ==
    /\ peekCount = 1
    /\ ppc = "Parse"
    /\ token.typ = itemHeadingOne
    /\ Len(doc.content) = 1
    /\ doc.content[1].kind = "unorderedList"
    /\ Len(returned) = 1

(***************************************************************************)
(* Properties of drain(), checked under FairDrain.                         *)
(***************************************************************************)

\* C35: a call of drain(), made before any item was received, after some
\* items or after the terminal item, returns; when it has returned the lexer
\* goroutine has left run() and the channel is closed, with no send pending.
C35_DrainReturns ==
    /\ (cpc = "drain") ~> (cpc = "drained")
    /\ [](cpc = "drained" => (closed /\ lpc = "exit" /\ chan = <<>>))
    /\ [][cpc = "drain" => cpc' \in {"drain", "drained"}]_vars

\* C35's case: drain() was called after one item of several and has returned:
\* the lexer had gone on to a later paragraph meanwhile.
C35_Witness ==
    /\ cpc = "drained"
    /\ Len(items) = 1
    /\ ~IsTerminal(items[1])
    /\ entered["lexParagraph"] > items[1].pos + Len(items[1].val)

(***************************************************************************)
(* The value of a keyword's sentinel, checked under Spec.                  *)
(***************************************************************************)

\* The sentinel the claim describes for the keyword e whose `%word` starts
\* at offset b: its value starts after all the spaces and tabs that follow
\* the word and ends where the line ends.
SentinelAt(e, b) ==
    LET v == TokenEnd(b) + BlankRun(TokenEnd(b))
    IN  item(e[2], Slice(v, EndOfLine(v)), v)

\* C36: the sentinel of a keyword holds the rest of the keyword's line after
\* the whole run of spaces and tabs that follows the word, and its offset is
\* the offset just after that run; when the newline follows the word
\* directly the value is empty and the offset is that of the newline.
C36_SentinelValue ==
    [][ \A e \in NineKeywords :
            ( /\ LexAt("lexKeyword")
              /\ TokenEnd(start) < Len(input)
              /\ SameWord(e[1], Slice(start + 1, TokenEnd(start))) ) =>
                /\ chan' = <<SentinelAt(e, start)>>
                /\ ByteIs(TokenEnd(start), NL) =>
                       chan' = <<item(e[2], <<>>, TokenEnd(start))>>
      ]_vars

\* C36's case: `%pre`, two spaces, then `a`: the Pre sentinel holds `a` and
\* its offset is 6.
C36_Witness ==
    /\ lpc = "emitKeyword"
    /\ chan = <<item(itemPre, <<"a">>, 6)>>
    /\ SubSeq(input, 1, 6) = <<"%", "p", "r", "e", SP, SP>>

(***************************************************************************)
(* Block starts inside a paragraph, checked under Spec.                    *)
(***************************************************************************)

\* The bytes that start a heading, a list item or a keyword.
BlockStartBytes ==
    {"-", "*", "%", "0", "1", "2", "3", "4", "5", "6", "7", "8", "9"}

\* The offsets m of the lines that start like a block and directly follow a
\* line of the Paragraph item p: the byte before m is the newline that ends
\* a line of p which is not empty.
BlockLinesAfter(p) ==
    { m \in 2..(Len(input) - 1) :
        /\ input[m + 1] \in BlockStartBytes
        /\ input[m] = NL
        /\ input[m - 1] # NL
        /\ p.pos <= m - 2
        /\ m - 2 < p.pos + Len(p.val) }

\* C37: a line that starts with `-`, `*`, a digit or `%` and directly
\* follows a line of a paragraph, with no empty line between the two, is
\* part of that Paragraph item up to its last byte: no item starts on the
\* line, so it gives no heading, list or keyword item and no Error.
C37_BlockStartInParagraph ==
    \A i \in 1..Len(Sent) :
        Sent[i].typ = itemParagraph =>
            \A m \in BlockLinesAfter(Sent[i]) :
                /\ EndOfLine(m) <= Sent[i].pos + Len(Sent[i].val)
                /\ \A j \in 1..Len(Sent) :
                       Sent[j].typ # itemEOF =>
                           ~(m <= Sent[j].pos /\ Sent[j].pos <= EndOfLine(m))

\* C37's case: the line `- c` directly after the paragraph line `b` is in
\* one Paragraph item with it, and EOF is the only other item.
C37_Witness ==
    /\ closed
    /\ Len(items) = 2
    /\ items[2].typ = itemEOF
    /\ items[1] = item(itemParagraph, <<"a", NL, "b", NL, "-", SP, "c">>, 0)
    /\ BlockLinesAfter(items[1]) = {4}

(***************************************************************************)
(* Text items in Parse's main loop, checked under SpecParse.               *)
(***************************************************************************)

\* Parse's main loop is about to take a Text item with p.next().
TextInMainLoop ==
    /\ ppc = "Parse"
    /\ nextReady
    /\ next.token.typ = itemText

\* C38: a Text item that Parse's main loop takes changes neither the
\* metadata nor the content of the Document: the item is consumed, nothing
\* is pushed back, and Parse goes on to its next p.next().
C38_TextSkipped ==
    [][ (TextInMainLoop /\ parvars' # parvars) =>
            /\ doc' = doc
            /\ ppc' = "Parse"
            /\ peekCount' = 0
            /\ ret' = ret
            /\ returned' = Append(returned, next.token)
      ]_vars

\* C38's case: the line `d` that follows `%title t` with no empty line
\* between was taken by the main loop as a Text item; the title is set and
\* the content is empty.
C38_Witness ==
    /\ ppc \in {"Parse", "return"}
    /\ Len(returned) >= 2
    /\ returned[1] = item(itemTitle, <<"t">>, 7)
    /\ returned[2] = item(itemText, <<"d">>, 9)
    /\ doc.metadata.title = <<"t">>
    /\ doc.content = <<>>

(***************************************************************************)
(* Receives on the closed channel, checked under SpecParse.                *)
(***************************************************************************)

\* C39: once the lexer has closed the channel, after its terminal item was
\* received, a call of nextItem() does not block and yields the zero item:
\* an Error item with an empty value at offset 0.  A p.next() that receives
\* then returns that item, which the lexer never sent.
C39_ReceiveAfterClose ==
    /\ [](closed =>
             /\ chan = <<>>
             /\ sent # <<>> /\ IsTerminal(sent[Len(sent)])
             /\ nextItemReady
             /\ nextItem = item(itemError, <<>>, 0))
    /\ [][ (closed /\ peekCount = 0 /\ parvars' # parvars) =>
              /\ token' = item(itemError, <<>>, 0)
              /\ sent' = sent
              /\ phantom'
         ]_vars

\* C39's case: the lexer sent the Error of a cut-off keyword and closed the
\* channel, and p.next() has since returned the zero item.
C39_Witness ==
    /\ closed
    /\ phantom
    /\ Len(sent) = 1
    /\ sent[1].typ = itemError
    /\ sent[1].val # <<>>
    /\ token = item(itemError, <<>>, 0)

====
